---- MODULE Spec2Model ----
(***************************************************************************)
(* Cycle-level model of the out-of-order engine of the RISC-V simulator:   *)
(* register file with rename pointers, reorder buffer, reservation         *)
(* station, address unit, load buffer, functional units, process memory    *)
(* and the per-cycle phases commit / write-result / execute / issue.       *)
(*                                                                         *)
(* Machine words are u32 in the source.  TLC's integers are 32-bit signed, *)
(* so every word of the model is kept modulo Word = 2^WordBits with        *)
(* WordBits = 16; the address space is scaled the same way (the stack      *)
(* still sits at the very top of the address space and wraps to 0).        *)
(***************************************************************************)
EXTENDS Integers, Sequences, FiniteSets, TLC

\* ------------------------------------------------------------------ words
\* u32 of the source, scaled: all arithmetic wraps modulo Word.
Word == 65536

NoneV == -1

WORD_SIZE == 4

wrapping_add(a, b) == (a + b) % Word

\* ------------------------------------------------------------- operands
\* pipeline/operand.rs: Value(u32) | Rob(usize) | None (the default).
Value(v) == [t |-> "Value", v |-> v]
Rob(i) == [t |-> "Rob", v |-> i]
OperandDefault == [t |-> "None", v |-> 0]

IsValue(op) == op.t = "Value"

\* ---------------------------------------------------------- instructions
\* instruction.rs: opcode, function and the optional fields of each format
\* (NoneV stands for an absent field).
Inst(op, f, rd, rs1, rs2, imm) ==
    [op |-> op, f |-> f, rd |-> rd, rs1 |-> rs1, rs2 |-> rs2, imm |-> imm]

\* I-format
IAddi(rd, rs1, imm) == Inst("OpImm", "Addi", rd, rs1, NoneV, imm % Word)
ILw(rd, rs1, imm) == Inst("Load", "Lw", rd, rs1, NoneV, imm % Word)
ILb(rd, rs1, imm) == Inst("Load", "Lb", rd, rs1, NoneV, imm % Word)
IJalr(rd, rs1, imm) == Inst("Jalr", "Jalr", rd, rs1, NoneV, imm % Word)
IEcall == Inst("System", "Ecall", 0, 0, NoneV, 0)
\* R-format
IAdd(rd, rs1, rs2) == Inst("Op", "Add", rd, rs1, rs2, NoneV)
IMul(rd, rs1, rs2) == Inst("Op", "Mul", rd, rs1, rs2, NoneV)
\* R4-format (atomics)
IScw(rd, rs2, rs1) == Inst("Amo", "Scw", rd, rs1, rs2, NoneV)
IAmoswapw(rd, rs2, rs1) == Inst("Amo", "Amoswapw", rd, rs1, rs2, NoneV)
IAmoaddw(rd, rs2, rs1) == Inst("Amo", "Amoaddw", rd, rs1, rs2, NoneV)
\* S- and B-format
ISw(rs2, rs1, imm) == Inst("Store", "Sw", NoneV, rs1, rs2, imm % Word)
ISb(rs2, rs1, imm) == Inst("Store", "Sb", NoneV, rs1, rs2, imm % Word)
IBeq(rs1, rs2, imm) == Inst("Branch", "Beq", NoneV, rs1, rs2, imm % Word)
IBne(rs1, rs2, imm) == Inst("Branch", "Bne", NoneV, rs1, rs2, imm % Word)
\* U- and J-format
ILui(rd, imm) == Inst("Lui", "Lui", rd, NoneV, NoneV, imm % Word)
IJal(rd, imm) == Inst("Jal", "Jal", rd, NoneV, NoneV, imm % Word)

\* consts.rs NOP = 0x13 = addi x0, x0, 0
NOP == IAddi(0, 0, 0)

\* ------------------------------------------------------------ registers
NumRegs == 32
SYSCALL_NUM_REG == 17
SYSCALL_RET_REG == 10
SYSCALL_ARG1_REG == 10
Regs == 0..(NumRegs - 1)

\* --------------------------------------------------------------- memory
\* memory/mod.rs ProcessMemory, on a scaled image: the data image starts at
\* address 0 (v_address_range.0 is never assigned by new()), holds the text
\* (read-only) and then DataSize writable bytes; the stack image is the last
\* StackSize bytes of the address space.
TextBase == 16
TextWords == 40
DataSize == 8
StackSize == 8
TextEnd == TextBase + WORD_SIZE * TextWords
DataBase == TextEnd
VEndInit == DataBase + DataSize
StackBase == Word - StackSize
StackPointerInit == Word - 4

v_address_range0 == 0
read_only_range == <<TextBase, TextEnd>>
stack_range0 == StackBase

\* check_address_space: TRUE when the access is allowed (no panic)
check_address_space(m, addr) ==
    ~(addr < v_address_range0 \/ (addr >= m.v1 /\ addr < stack_range0))

\* variant: no range is read-only
check_write_address_space_open(addr) == TRUE

\* check_write_address_space: TRUE when the write is allowed (no panic)
check_write_address_space(addr) ==
    ~(read_only_range[1] <= addr /\ addr < read_only_range[2])

InStack(addr) == ~(addr < stack_range0)

MemBuf(m, addr) == IF InStack(addr) THEN m.stack ELSE m.data

MemOffset(addr) ==
    IF InStack(addr) THEN addr - stack_range0 ELSE addr - v_address_range0

\* read_bytes succeeds: the address check passes and the slice is in bounds
ReadOk(m, addr, size) ==
    /\ check_address_space(m, addr)
    /\ MemOffset(addr) + size <= Len(MemBuf(m, addr))

RECURSIVE LeValue(_, _, _)
LeValue(buf, off, size) ==
    IF size = 0 THEN 0
    ELSE (buf[off + 1] + 256 * LeValue(buf, off + 1, size - 1)) % Word

\* read::<T>(addr) for an unsigned T of `size` bytes, little-endian
MemRead(m, addr, size) == LeValue(MemBuf(m, addr), MemOffset(addr), size)

WriteOk(m, addr, size) ==
    /\ check_address_space(m, addr)
    /\ check_write_address_space(addr)
    /\ MemOffset(addr) + size <= Len(MemBuf(m, addr))

ByteOf(value, k) ==
    IF k = 0 THEN value % 256 ELSE IF k = 1 THEN (value \div 256) % 256 ELSE 0

PutBytes(buf, off, size, value) ==
    [i \in 1..Len(buf) |->
        IF i > off /\ i <= off + size THEN ByteOf(value, i - off - 1) ELSE buf[i]]

\* write::<T>(addr, value)
MemWrite(m, addr, size, value) ==
    IF InStack(addr)
    THEN [m EXCEPT !.stack = PutBytes(m.stack, MemOffset(addr), size, value)]
    ELSE [m EXCEPT !.data = PutBytes(m.data, MemOffset(addr), size, value)]

\* ------------------------------------------------------------------ ALU
\* bit-by-bit combination of two words: & | ^ of u32
RECURSIVE Bitwise(_, _, _, _)
Bitwise(op, a, b, n) ==
    IF n = 0 THEN 0
    ELSE LET x == a % 2
             y == b % 2
             bit == CASE op = "and" -> x * y
                      [] op = "or" -> IF x + y > 0 THEN 1 ELSE 0
                      [] OTHER -> (x + y) % 2
         IN bit + 2 * Bitwise(op, a \div 2, b \div 2, n - 1)

WordBits == 16

\* `as i32`
AsSigned(v) == IF v >= Word \div 2 THEN v - Word ELSE v

\* `as u32` of a signed value
AsUnsigned(v) == v % Word

\* the smallest i32
IntMin == Word \div 2

MulLow(a, b) ==
    LET al == a % 256
        ah == a \div 256
        bl == b % 256
        bh == b \div 256
    IN (al * bl + 256 * ((ah * bl + al * bh) % 256)) % Word

\* the high word of the product of two unsigned words
MulHighU(a, b) ==
    LET al == a % 256
        ah == a \div 256
        bl == b % 256
        bh == b \div 256
    IN (ah * bh + ((ah * bl + al * bh) * 256 + al * bl) \div Word) % Word

\* u32 << n and u32 >> n for n below the word width
ShiftLeft(a, n) == (a % (2 ^ (WordBits - n))) * (2 ^ n)
ShiftRight(a, n) == a \div (2 ^ n)

\* i32 >> n, sign bits shifted in
ShiftRightArith(a, n) == AsUnsigned(AsSigned(a) \div (2 ^ n))

\* the mask `& 0x1f` of the shift amount, for the scaled word width
ShiftMask(b) == b % WordBits

\* i32 `/` and wrapping_rem: the quotient is truncated towards zero
Magnitude(x) == IF x < 0 THEN 0 - x ELSE x
TruncDiv(x, y) ==
    IF (x < 0) = (y < 0) THEN Magnitude(x) \div Magnitude(y)
    ELSE 0 - (Magnitude(x) \div Magnitude(y))
TruncRem(x, y) == x - y * TruncDiv(x, y)

\* alu panics in every build: `/`, wrapping_div and wrapping_rem by zero,
\* and `/` of the smallest i32 by -1
AluAborts(f, a, b) ==
    CASE f = "Div" -> b = 0 \/ (a = IntMin /\ b = Word - 1)
      [] f \in {"Divu", "Rem", "Remu"} -> b = 0
      [] OTHER -> FALSE

\* alu panics in a build with overflow checks only: the u64 product of the
\* sign-extended inputs, the i32 sum of the load / store arm, a shift by an
\* immediate of the word width or more
AluOverflows(f, a, b) ==
    CASE f \in {"Mulhu", "Mulhsu"} ->
           \/ a >= IntMin /\ b >= IntMin
           \/ a >= IntMin /\ b >= 2
           \/ b >= IntMin /\ a >= 2
      [] f \in {"Lb", "Lbu", "Lh", "Lhu", "Lw", "Sb", "Sh", "Sw"} ->
           \/ AsSigned(a) + AsSigned(b) >= IntMin
           \/ AsSigned(a) + AsSigned(b) < 0 - IntMin
      [] f \in {"Slli", "Srli", "Srai"} -> b >= WordBits
      [] OTHER -> FALSE

\* alu.rs alu(func, input1, input2), on scaled words: the value it returns
\* when it returns (with wrapping arithmetic where a build wraps)
alu(f, a, b) ==
    CASE f \in {"Add", "Addi", "AuiPc", "Jal", "Jalr"} -> wrapping_add(a, b)
      [] f = "Sub" -> (a + Word - b) % Word
      [] f \in {"Slt", "Slti"} -> IF AsSigned(a) < AsSigned(b) THEN 1 ELSE 0
      [] f \in {"Sltu", "Sltiu"} -> IF a < b THEN 1 ELSE 0
      [] f \in {"And", "Andi"} -> Bitwise("and", a, b, WordBits)
      [] f \in {"Or", "Ori"} -> Bitwise("or", a, b, WordBits)
      [] f \in {"Xor", "Xori"} -> Bitwise("xor", a, b, WordBits)
      [] f = "Sll" -> ShiftLeft(a, ShiftMask(b))
      [] f = "Slli" -> ShiftLeft(a, ShiftMask(b))
      [] f = "Srl" -> ShiftRight(a, ShiftMask(b))
      [] f = "Srli" -> ShiftRight(a, ShiftMask(b))
      [] f = "Sra" -> ShiftRightArith(a, ShiftMask(b))
      [] f = "Srai" -> ShiftRightArith(a, ShiftMask(b))
      [] f = "Lui" -> b
      [] f = "Beq" -> IF a = b THEN 1 ELSE 0
      [] f = "Bne" -> IF a # b THEN 1 ELSE 0
      [] f = "Blt" -> IF AsSigned(a) < AsSigned(b) THEN 1 ELSE 0
      [] f = "Bltu" -> IF a < b THEN 1 ELSE 0
      [] f = "Bge" -> IF AsSigned(a) >= AsSigned(b) THEN 1 ELSE 0
      [] f = "Bgeu" -> IF a >= b THEN 1 ELSE 0
      [] f \in {"Lb", "Lbu", "Lh", "Lhu", "Lw", "Sb", "Sh", "Sw"} ->
           wrapping_add(a, b)
      [] f = "Mul" -> MulLow(a, a)
      [] f = "Mulh" -> AsUnsigned((AsSigned(a) * AsSigned(b)) \div Word)
      [] f \in {"Mulhu", "Mulhsu"} ->
           AsUnsigned((AsSigned(a) * AsSigned(b)) \div Word)
      [] f = "Div" -> IF AluAborts(f, a, b) THEN 0
                      ELSE AsUnsigned(TruncDiv(AsSigned(a), AsSigned(b)))
      [] f = "Divu" -> IF b = 0 THEN 0 ELSE a \div b
      [] f = "Rem" -> IF b = 0 THEN 0
                      ELSE AsUnsigned(TruncRem(AsSigned(a), AsSigned(b)))
      [] f = "Remu" -> IF b = 0 THEN 0 ELSE a % b
      [] OTHER -> 0

\* MemoryUnit::execute, the read-modify-write table: the word an atomic
\* leaves in entry.mem_value from the word read and the rs2 value (the
\* addition wraps, as in a release build)
amo_mem_val(f, value, value_to_calc) ==
    CASE f = "Lrw" -> 0
      [] f = "Amoaddw" -> wrapping_add(value, value_to_calc)
      [] f = "Amoandw" -> Bitwise("and", value, value_to_calc, WordBits)
      [] f = "Amoorw" -> Bitwise("or", value, value_to_calc, WordBits)
      [] f = "Amoxorw" -> Bitwise("xor", value, value_to_calc, WordBits)
      [] f = "Amomaxuw" -> IF value >= value_to_calc THEN value ELSE value_to_calc
      [] f = "Amomaxw" -> IF AsSigned(value) >= AsSigned(value_to_calc)
                          THEN value ELSE value_to_calc
      [] f = "Amominuw" -> IF value <= value_to_calc THEN value ELSE value_to_calc
      [] f = "Amominw" -> IF AsSigned(value) <= AsSigned(value_to_calc)
                          THEN value ELSE value_to_calc
      [] OTHER -> value_to_calc

\* ----------------------------------------------------- branch predictor
\* branch_predictor.rs: branch_map : pc -> (predicted, last)
predict(bp, pc) == IF pc \in DOMAIN bp THEN bp[pc][1] ELSE FALSE

\* predict() inserts (false, false) for an unseen pc
predict_insert(bp, pc) ==
    IF pc \in DOMAIN bp THEN bp ELSE bp @@ (pc :> <<FALSE, FALSE>>)

\* variant: the prediction follows the last outcome at once
update_state_last(val, is_taken) ==
    IF is_taken = 0 THEN <<FALSE, FALSE>> ELSE <<TRUE, TRUE>>

\* BranchPredictor::update, the four arms of the match
update_state(val, is_taken) ==
    IF is_taken = 0
    THEN (IF val[2] THEN <<val[1], FALSE>> ELSE <<FALSE, FALSE>>)
    ELSE (IF val[2] THEN <<TRUE, TRUE>> ELSE <<val[1], TRUE>>)

update(bp, pc, is_taken) == [bp EXCEPT ![pc] = update_state(bp[pc], is_taken)]

\* ------------------------------------------------------- reorder buffer
\* consts.rs MEM_CYCLE
MEM_CYCLE == 10

\* reorder_buffer/mod.rs ReorderBuffer: positions of buf are 1-based here
\* (raw index r of the source is position r + 1).
EmptyFcn == [x \in {} |-> 0]

RobEmpty ==
    [highst_index |-> 0, unused_indies |-> <<>>, index_queue |-> <<>>,
     index_map |-> EmptyFcn, buf |-> <<>>]

\* ReorderBuffer::clear
RobClear(rob) == RobEmpty

RobHas(rob, index) ==
    /\ index \in DOMAIN rob.index_map
    /\ rob.index_map[index] \in 1..Len(rob.buf)

\* ReorderBuffer::get (defined when RobHas)
RobGet(rob, index) == rob.buf[rob.index_map[index]].e

\* ReorderBuffer::get_mut followed by an assignment of the entry
RobSet(rob, index, e) ==
    [rob EXCEPT !.buf[rob.index_map[index]] = [idx |-> index, e |-> e]]

\* variant: an entry is completed as soon as its reg_value is set
is_completed_by_value(e) == e.reg_value # NoneV

\* ReorderBufferEntry::is_completed
is_completed(e) ==
    LET mem_val_done == IsValue(e.mem_value)
        addr_done == IsValue(e.addr)
        reg_val_done == e.reg_value # NoneV
    IN CASE e.inst.op = "Store" ->
              mem_val_done /\ addr_done /\ e.mem_rem_cycle = 0
         [] e.inst.op = "Amo" ->
              mem_val_done /\ addr_done /\ reg_val_done /\ e.mem_rem_cycle = 0
         [] e.inst.op = "Jalr" -> addr_done /\ reg_val_done
         [] OTHER -> reg_val_done

\* ReorderBuffer::register_new_index: <<index, rob'>>
register_new_index(rob) ==
    IF Len(rob.unused_indies) > 0
    THEN <<Head(rob.unused_indies),
           [rob EXCEPT !.unused_indies = Tail(rob.unused_indies)]>>
    ELSE <<rob.highst_index,
           [rob EXCEPT !.highst_index = rob.highst_index + 1]>>

\* ReorderBuffer::add: <<index, rob'>>
RobAdd(rob, entry) ==
    LET r == register_new_index(rob)
        index == r[1]
        rob1 == r[2]
        newbuf == Append(rob1.buf, [idx |-> index, e |-> entry])
    IN <<index,
         [rob1 EXCEPT !.index_queue = Append(rob1.index_queue, index),
                      !.buf = newbuf,
                      !.index_map =
                          [i \in DOMAIN rob1.index_map \cup {index} |->
                              IF i = index THEN Len(newbuf)
                              ELSE rob1.index_map[i]]]>>

\* Vec::swap_remove at 1-based position r
swap_remove(buf, r) ==
    LET n == Len(buf)
    IN [i \in 1..(n - 1) |-> IF i = r THEN buf[n] ELSE buf[i]]

\* variant: the youngest entry is popped instead of the oldest
pop_back(rob) ==
    LET n == Len(rob.index_queue)
        index == rob.index_queue[n]
        raw_idx_to_remove == rob.index_map[index]
        last_idx == rob.buf[Len(rob.buf)].idx
        map1 == [i \in DOMAIN rob.index_map \ {index} |-> rob.index_map[i]]
        map2 == IF last_idx \in DOMAIN map1
                THEN [map1 EXCEPT ![last_idx] = raw_idx_to_remove]
                ELSE map1
    IN <<rob.buf[raw_idx_to_remove].e,
         [rob EXCEPT !.index_queue = SubSeq(rob.index_queue, 1, n - 1),
                     !.index_map = map2,
                     !.buf = swap_remove(rob.buf, raw_idx_to_remove),
                     !.unused_indies = Append(rob.unused_indies, index)]>>

\* variant: the position of the entry moved by swap_remove is not recorded
pop_front_unmoved(rob) ==
    LET index == Head(rob.index_queue)
        raw_idx_to_remove == rob.index_map[index]
    IN <<rob.buf[raw_idx_to_remove].e,
         [rob EXCEPT !.index_queue = Tail(rob.index_queue),
                     !.index_map = [i \in DOMAIN rob.index_map \ {index} |->
                                       rob.index_map[i]],
                     !.buf = swap_remove(rob.buf, raw_idx_to_remove),
                     !.unused_indies = Append(rob.unused_indies, index)]>>

\* ReorderBuffer::pop_front (the buffer is not empty): <<entry, rob'>>
pop_front(rob) ==
    LET index == Head(rob.index_queue)
        raw_idx_to_remove == rob.index_map[index]
        last_idx == rob.buf[Len(rob.buf)].idx
        map1 == [i \in DOMAIN rob.index_map \ {index} |-> rob.index_map[i]]
        map2 == IF last_idx \in DOMAIN map1
                THEN [map1 EXCEPT ![last_idx] = raw_idx_to_remove]
                ELSE map1
    IN <<rob.buf[raw_idx_to_remove].e,
         [rob EXCEPT !.index_queue = Tail(rob.index_queue),
                     !.index_map = map2,
                     !.buf = swap_remove(rob.buf, raw_idx_to_remove),
                     !.unused_indies = Append(rob.unused_indies, index)]>>

\* iter_with_id(): the (index, entry) pairs in index_queue order
RobSeq(rob) ==
    [k \in 1..Len(rob.index_queue) |->
        rob.buf[rob.index_map[rob.index_queue[k]]]]

\* variant: the completed entries are counted wherever they are
RECURSIVE CompletedAnywhere(_, _)
CompletedAnywhere(seq, k) ==
    IF k > Len(seq) THEN 0
    ELSE (IF is_completed(seq[k].e) THEN 1 ELSE 0) + CompletedAnywhere(seq, k + 1)

\* number of leading completed entries (take_while is_completed)
RECURSIVE CompletedPrefix(_, _)
CompletedPrefix(seq, k) ==
    IF k > Len(seq) THEN Len(seq)
    ELSE IF is_completed(seq[k].e) THEN CompletedPrefix(seq, k + 1)
    ELSE k - 1

\* the loop of completed_entries: each completed index is paired with the
\* entry pop_front returns: <<(index, entry) pairs, rob'>>
RECURSIVE PopEach(_, _)
PopEach(rob, idxs) ==
    IF idxs = <<>> THEN <<<<>>, rob>>
    ELSE LET pf == pop_front(rob)
             rest == PopEach(pf[2], Tail(idxs))
         IN <<<<[idx |-> Head(idxs), e |-> pf[1]]>> \o rest[1], rest[2]>>

\* ReorderBuffer::completed_entries: <<retired (index, entry) pairs, rob'>>
completed_entries(rob) ==
    LET seq == RobSeq(rob)
        n == CompletedPrefix(seq, 1)
    IN PopEach(rob, [k \in 1..n |-> seq[k].idx])

\* ReorderBuffer::propagate(job)
ReplaceOp(op, job) ==
    IF op.t = "Rob" /\ op.v = job.rob_idx THEN Value(job.reg_value) ELSE op

RobPropagate(rob, job) ==
    [rob EXCEPT !.buf =
        [k \in 1..Len(rob.buf) |->
            IF rob.buf[k].idx = job.rob_idx
            THEN [rob.buf[k] EXCEPT !.e.reg_value = job.reg_value]
            ELSE [rob.buf[k] EXCEPT
                    !.e.addr = ReplaceOp(rob.buf[k].e.addr, job),
                    !.e.mem_value = ReplaceOp(rob.buf[k].e.mem_value, job)]]]

\* ---------------------------------------------------- finite maps (HashMap)
MapPut(m, k, v) == [i \in DOMAIN m \cup {k} |-> IF i = k THEN v ELSE m[i]]
MapDel(m, ks) == [i \in DOMAIN m \ ks |-> m[i]]

\* --------------------------------------------------------- register file
\* RegisterFile::new
RegInit(pc, stack_pointer) ==
    [pc |-> pc,
     gpr |-> [r \in Regs |-> IF r = 2 THEN stack_pointer ELSE 0],
     related_rob |-> [r \in Regs |-> NoneV]]

\* variant: the write protection of x0 is ignored
RegWriteAny(reg, r, value) == [reg EXCEPT !.gpr[r] = value]

\* Register::write: x0 is not writable
RegWrite(reg, r, value) ==
    IF r = 0 THEN reg ELSE [reg EXCEPT !.gpr[r] = value]

\* RegisterFile::get_reg_value: the unwrap on rob.get(idx) succeeds
GetRegOk(reg, r, rob) ==
    reg.related_rob[r] = NoneV \/ RobHas(rob, reg.related_rob[r])

get_reg_value(reg, r, rob) ==
    LET idx == reg.related_rob[r]
    IN IF idx = NoneV THEN Value(reg.gpr[r])
       ELSE IF RobGet(rob, idx).reg_value # NoneV
            THEN Value(RobGet(rob, idx).reg_value)
            ELSE Rob(idx)

\* variant: x0 is renamed like any other register
set_reg_rob_index_any(reg, r, rob_idx) == [reg EXCEPT !.related_rob[r] = rob_idx]

\* RegisterFile::set_reg_rob_index
set_reg_rob_index(reg, r, rob_idx) ==
    IF r = 0 THEN reg ELSE [reg EXCEPT !.related_rob[r] = rob_idx]

\* ------------------------------------------------------ ROB issue
\* ReorderBuffer::issue needs the source operands of Store and Amo
RobIssueOk(reg, rob, inst) ==
    CASE inst.op = "Store" -> GetRegOk(reg, inst.rs2, rob)
      [] inst.op = "Amo" -> GetRegOk(reg, inst.rs2, rob) /\ GetRegOk(reg, inst.rs1, rob)
      [] OTHER -> TRUE

\* the entry ReorderBuffer::issue builds; stamp is the issue order (history)
NewRobEntry(reg, rob, bp, pc, inst, stamp) ==
    [pc |-> pc,
     inst |-> inst,
     reg_value |-> NoneV,
     mem_value |-> IF inst.op \in {"Store", "Amo"}
                   THEN get_reg_value(reg, inst.rs2, rob) ELSE OperandDefault,
     rd |-> IF inst.rd = NoneV THEN 0 ELSE inst.rd,
     addr |-> IF inst.op = "Amo"
              THEN get_reg_value(reg, inst.rs1, rob) ELSE OperandDefault,
     branch_pred |-> IF inst.op = "Branch" THEN predict(bp, pc) ELSE FALSE,
     mem_rem_cycle |-> MEM_CYCLE,
     mem_exception |-> "Ok",
     stamp |-> stamp]

\* ------------------------------------------------- reservation station
\* RSEntry; waits (history) is the set of ROB indices its operands named
\* when it was issued
RSEntry(rob_index, inst, op1, op2, remaining_clock) ==
    [rob_index |-> rob_index, status |-> "Wait", inst |-> inst,
     operand |-> <<op1, op2>>, value |-> 0, remaining_clock |-> remaining_clock,
     waits |-> {o.v : o \in {x \in {op1, op2} : x.t = "Rob"}}]

\* ReservationStation::remain_clock
remain_clock(f) ==
    IF f \in {"Mul", "Mulh", "Mulhsu", "Mulhu"} THEN 4
    ELSE IF f \in {"Div", "Divu", "Rem", "Remu"} THEN 8
    ELSE 1

RsEmpty == [address_unit |-> EmptyFcn, station |-> EmptyFcn]

\* ReservationStation::clear: only the station is cleared
RsClear(rs) == [rs EXCEPT !.station = EmptyFcn]

\* AddressUnit::issue
AddressIssue(rs, rob_idx, inst, reg, rob) ==
    [rs EXCEPT !.address_unit =
        MapPut(rs.address_unit, rob_idx,
               RSEntry(rob_idx, inst, get_reg_value(reg, inst.rs1, rob),
                       Value(IF inst.imm = NoneV THEN 0 ELSE inst.imm), 1))]

\* ReservationStation::issue, the general arm
StationIssue(rs, rob_idx, inst, reg, rob) ==
    LET r1 == IF inst.rs1 = NoneV THEN 0 ELSE inst.rs1
        op1 == get_reg_value(reg, r1, rob)
        op2 == IF inst.rs2 # NoneV THEN get_reg_value(reg, inst.rs2, rob)
               ELSE Value(IF inst.imm = NoneV THEN 0 ELSE inst.imm)
    IN [rs EXCEPT !.station =
           MapPut(rs.station, rob_idx,
                  RSEntry(rob_idx, inst, op1, op2, remain_clock(inst.f)))]

\* which arm of ReservationStation::issue an instruction takes
RsArm(inst) ==
    CASE inst.op \in {"Store", "Jalr"} -> "address"
      [] inst.op = "Load" -> "load"
      [] inst.op = "Amo" /\ inst.f # "Scw" -> "amo_load"
      [] inst.op \in {"AuiPc", "Lui", "Jal", "Amo"} -> "none"
      [] OTHER -> "station"

\* the unwraps of ReservationStation::issue succeed.  A non-Scw atomic goes to
\* LoadBuffer::issue, which unwraps the immediate an R4-format word lacks.
RsIssueOk(inst, reg, rob) ==
    CASE RsArm(inst) = "address" -> GetRegOk(reg, inst.rs1, rob)
      [] RsArm(inst) = "amo_load" -> FALSE
      [] RsArm(inst) = "station" ->
           /\ GetRegOk(reg, IF inst.rs1 = NoneV THEN 0 ELSE inst.rs1, rob)
           /\ (inst.rs2 # NoneV => GetRegOk(reg, inst.rs2, rob))
      [] OTHER -> TRUE

RsIssue(rs, rob_idx, inst, reg, rob) ==
    CASE RsArm(inst) = "address" -> AddressIssue(rs, rob_idx, inst, reg, rob)
      [] RsArm(inst) = "station" -> StationIssue(rs, rob_idx, inst, reg, rob)
      [] OTHER -> rs

\* AddressUnit::propagate (first operand only) and the station loop of
\* ReservationStation::propagate
RsPropagate(rs, job) ==
    [address_unit |->
        [i \in DOMAIN rs.address_unit |->
            [rs.address_unit[i] EXCEPT
                !.operand[1] = ReplaceOp(rs.address_unit[i].operand[1], job)]],
     station |->
        [i \in DOMAIN rs.station |->
            [rs.station[i] EXCEPT
                !.operand = <<ReplaceOp(rs.station[i].operand[1], job),
                              ReplaceOp(rs.station[i].operand[2], job)>>]]]

\* --------------------------------------------------------- address unit
OperandsReady(e) == IsValue(e.operand[1]) /\ IsValue(e.operand[2])

\* entries AddressUnit::execute finishes this cycle
AddrReady(au) == {i \in DOMAIN au : OperandsReady(au[i])}

\* variant: the immediate is left out of the address
AddrValueBaseOnly(e) == e.operand[1].v

AddrValue(e) == wrapping_add(e.operand[1].v, e.operand[2].v)

\* rob.get_mut(rob_idx).unwrap() succeeds for every finished entry
AddressExecOk(au, rob) == \A i \in AddrReady(au) : RobHas(rob, i)

\* the ROB after AddressUnit::execute stored the addresses
AddressExecRob(au, rob) ==
    [rob EXCEPT !.buf =
        [k \in 1..Len(rob.buf) |->
            IF rob.buf[k].idx \in AddrReady(au)
            THEN [rob.buf[k] EXCEPT !.e.addr = Value(AddrValue(au[rob.buf[k].idx]))]
            ELSE rob.buf[k]]]

\* the values the fold of AddressUnit::execute can return as npc: the first
\* non-zero Jalr target in the HashMap's iteration order, 0 standing for None
NpcChoices(au) ==
    LET targets == {AddrValue(au[i]) :
                       i \in {j \in AddrReady(au) : au[j].inst.op = "Jalr"}} \ {0}
    IN IF targets = {} THEN {0} ELSE targets

AddressExecUnit(au) == MapDel(au, AddrReady(au))

\* ------------------------------------------------------------ store unit
StoreSize(f) == IF f = "Sb" THEN 1 ELSE IF f = "Sh" THEN 2 ELSE 4

\* variant: the second-oldest entry is taken for the head
StoreEntrySecond(rob) == rob.index_queue[IF Len(rob.index_queue) > 1 THEN 2 ELSE 1]

\* rob.to_index(0): the ROB index of the oldest entry (the queue is not empty)
StoreEntryIndex(rob) == rob.index_queue[1]

\* ReservationStation::execute hands the ROB head to execute_store
HeadIsStore(rob) ==
    /\ Len(rob.index_queue) > 0
    /\ RobHas(rob, StoreEntryIndex(rob))
    /\ RobGet(rob, StoreEntryIndex(rob)).inst.op \in {"Store", "Amo"}
    /\ RobGet(rob, StoreEntryIndex(rob)).inst.f # "Lrw"

\* MemoryUnit::execute_store reaches mem.write
StoreFires(head) ==
    /\ ~(head.inst.op = "Amo" /\ head.reg_value = NoneV)
    /\ IsValue(head.addr) /\ IsValue(head.mem_value)

\* ------------------------------------------------- station (general) units
\* variant: an entry runs whether or not its operands are resolved
StationStepEager(e) ==
    IF e.status = "Finished" THEN e
    ELSE IF e.remaining_clock - 1 = 0
         THEN [e EXCEPT !.remaining_clock = 0,
                        !.value = alu(e.inst.f, e.operand[1].v, e.operand[2].v),
                        !.status = "Finished"]
         ELSE [e EXCEPT !.remaining_clock = e.remaining_clock - 1,
                        !.status = "Execute"]

\* ReservationStation::execute, the body of the loop over the station
StationStep(e) ==
    IF e.status = "Finished" \/ ~OperandsReady(e) THEN e
    ELSE IF e.remaining_clock - 1 = 0
         THEN [e EXCEPT !.remaining_clock = 0,
                        !.value = alu(e.inst.f, e.operand[1].v, e.operand[2].v),
                        !.status = "Finished"]
         ELSE [e EXCEPT !.remaining_clock = e.remaining_clock - 1,
                        !.status = "Execute"]

StationExec(station) == [i \in DOMAIN station |-> StationStep(station[i])]

StationFinished(station) == {i \in DOMAIN station : station[i].status = "Finished"}

\* FinishedCalc
FinishedCalc(rob_idx, reg_value) == [rob_idx |-> rob_idx, reg_value |-> reg_value]

\* ----------------------------------------------------------- load buffer
\* LoadBuffer::issue: the base register is looked up among the in-flight
\* register-writing entries, youngest first (the entry just added included)
WritesReg(e) == e.inst.op \notin {"Store", "Branch", "System"}

RECURSIVE FindWriter(_, _, _)
FindWriter(seq, k, base_reg) ==
    IF k = 0 THEN NoneV
    ELSE IF WritesReg(seq[k].e) /\ seq[k].e.rd = base_reg THEN k
    ELSE FindWriter(seq, k - 1, base_reg)

LoadBase(reg, rob, base_reg) ==
    LET seq == RobSeq(rob)
        k == FindWriter(seq, Len(seq), base_reg)
    IN IF k = NoneV THEN Value(reg.gpr[base_reg])
       ELSE IF seq[k].e.reg_value # NoneV THEN Value(seq[k].e.reg_value)
       ELSE Rob(seq[k].idx)

LoadIssue(lb, rob_index, inst, reg, rob) ==
    LET base == LoadBase(reg, rob, inst.rs1)
    IN Append(lb,
              [rob_index |-> rob_index, status |-> "Wait", func |-> inst.f,
               base |-> base,
               addr |-> wrapping_add(inst.imm, IF IsValue(base) THEN base.v ELSE 0),
               value |-> 0])

\* LoadBuffer::pop_finished: as many entries as are finished, from the front
FinishedNum(lb) == Cardinality({k \in 1..Len(lb) : lb[k].status = "Finished"})

pop_finished(lb) ==
    <<SubSeq(lb, 1, FinishedNum(lb)), SubSeq(lb, FinishedNum(lb) + 1, Len(lb))>>

\* LoadBuffer::propagate
LbPropagate(lb, rob_index, value) ==
    [k \in 1..Len(lb) |->
        IF lb[k].base.t = "Rob" /\ lb[k].base.v = rob_index
        THEN [lb[k] EXCEPT !.base = Value(value),
                           !.addr = wrapping_add(lb[k].addr, value)]
        ELSE lb[k]]

\* position of a ROB index in program order (to_relative_pos), 0 if absent
RECURSIVE PosOf(_, _, _)
PosOf(q, k, index) ==
    IF k > Len(q) THEN 0 ELSE IF q[k] = index THEN k ELSE PosOf(q, k + 1, index)

to_relative_pos(rob, index) == PosOf(rob.index_queue, 1, index)

\* LoadBuffer::execute, the test against the older stores of the ROB
StoreBlocks(rob_entry, addr) ==
    /\ rob_entry.inst.op = "Store"
    /\ \/ rob_entry.addr.t = "Rob"
       \/ rob_entry.addr.t = "Value" /\ rob_entry.addr.v = addr

LoadBlocked(rob, entry) ==
    \E k \in 1..(to_relative_pos(rob, entry.rob_index) - 1) :
        StoreBlocks(RobSeq(rob)[k].e, entry.addr)

\* FunctionalUnits::execute_load: the unit entry of this load (or_insert_with)
LoadUnit(fu, entry) ==
    IF entry.rob_index \in DOMAIN fu THEN fu[entry.rob_index]
    ELSE [remain_clock |-> 10, func |-> entry.func, A |-> entry.addr]

LoadSize(f) ==
    IF f \in {"Lb", "Lbu"} THEN 1 ELSE IF f \in {"Lh", "Lhu"} THEN 2 ELSE 4

\* one entry of the loop of LoadBuffer::execute over state
\* st = [lb, fu, ok, reads, faults], reading rob and mem; reads records the
\* loads that read memory in this cycle, faults the loads whose read was
\* refused by check_address_space or ran past the image (a panic)
LoadStep(st, k, rob, mem) ==
    LET entry == st.lb[k]
        unit == LoadUnit(st.fu, entry)
    IN IF ~st.ok \/ entry.status = "Finished" \/ ~IsValue(entry.base) THEN st
       ELSE IF to_relative_pos(rob, entry.rob_index) = 0
            THEN [st EXCEPT !.ok = FALSE]
       ELSE IF LoadBlocked(rob, entry) THEN st
       ELSE IF unit.remain_clock - 1 > 0
            THEN [st EXCEPT
                    !.fu = MapPut(st.fu, entry.rob_index,
                                  [unit EXCEPT !.remain_clock = unit.remain_clock - 1]),
                    !.lb[k].status = "Execute"]
       ELSE IF ~ReadOk(mem, unit.A, LoadSize(unit.func))
            THEN [st EXCEPT !.ok = FALSE,
                            !.faults = st.faults \cup {entry.rob_index}]
       ELSE [st EXCEPT
                !.reads = st.reads \cup {[rob_index |-> entry.rob_index, addr |-> unit.A]},
                !.fu = MapDel(st.fu, {entry.rob_index}),
                !.lb[k].status = "Finished",
                !.lb[k].value = MemRead(mem, unit.A, LoadSize(unit.func))]

RECURSIVE LoadExec(_, _, _, _)
LoadExec(st, k, rob, mem) ==
    IF k > Len(st.lb) THEN st
    ELSE LoadExec(LoadStep(st, k, rob, mem), k + 1, rob, mem)

\* ------------------------------------------------------------- programs

\* address of the k-th instruction word (k = 0, 1, ...) and of the data area
At(k) == TextBase + WORD_SIZE * k
\* branch / jump offset from word k to word t
Off(k, t) == (Word + WORD_SIZE * t - WORD_SIZE * k) % Word

Pad(code) == [k \in 1..TextWords |-> IF k <= Len(code) THEN code[k] ELSE NOP]

\* The text images the machine is started on.
Programs ==
    << \* 1: straight line with a read-after-write dependence
       Pad(<<IAddi(SYSCALL_NUM_REG, 0, 93), IAddi(5, 0, 3), IAdd(6, 5, 5), IEcall>>),
       \* 2: taken forward branch sharing its fetch pair with a wrong-path addi
       Pad(<<IAddi(SYSCALL_NUM_REG, 0, 93), IAddi(5, 0, 1), IBeq(0, 0, Off(2, 4)),
             IAddi(6, 0, 7), IAddi(7, 0, 9), IEcall>>),
       \* 3: counted loop closed by a backward branch
       Pad(<<IAddi(SYSCALL_NUM_REG, 0, 93), IAddi(5, 0, 3), IAddi(5, 5, -1),
             IBne(5, 0, Off(3, 2)), NOP, NOP, NOP, NOP, NOP, NOP, NOP, NOP, NOP,
             IEcall>>),
       \* 4: store followed by a load of the same address
       Pad(<<IAddi(SYSCALL_NUM_REG, 0, 93), IAddi(5, 0, DataBase), IAddi(6, 0, 5),
             ISw(6, 5, 0), ILw(7, 5, 0), IEcall>>),
       \* 5: store-conditional behind a slow load, then a load of its address
       Pad(<<IAddi(5, 0, DataBase), ILw(9, 5, 4), IAddi(6, 0, 5),
             IScw(8, 6, 5), ILw(7, 5, 0), IAddi(SYSCALL_NUM_REG, 0, 93), NOP,
             IEcall>>),
       \* 6: jal over an instruction, jalr through a register
       Pad(<<IAddi(SYSCALL_NUM_REG, 0, 93), IJal(1, Off(1, 4)), IAddi(5, 0, 1), NOP,
             IAddi(6, 0, At(8)), IJalr(0, 6, 0), IAddi(7, 0, 9), NOP, NOP, IEcall>>),
       \* 7: getuid, with the next instruction of the pair loading a7
       Pad(<<IAddi(SYSCALL_NUM_REG, 0, 174), NOP, IEcall,
             IAddi(SYSCALL_NUM_REG, 0, 93)>>),
       \* 8: brk above the data area, then exit
       Pad(<<IAddi(SYSCALL_NUM_REG, 0, 214), IAddi(SYSCALL_ARG1_REG, 0, VEndInit + 3),
             NOP, IEcall, IAddi(SYSCALL_NUM_REG, 0, 93), IEcall>>),
       \* 9: an atomic swap
       Pad(<<IAddi(5, 0, DataBase), IAmoswapw(6, 5, 5),
             IAddi(SYSCALL_NUM_REG, 0, 93), IEcall>>),
       \* 10: multiply feeding an add
       Pad(<<IAddi(SYSCALL_NUM_REG, 0, 93), IAddi(5, 0, 3), IAddi(6, 0, 5),
             IMul(7, 5, 6), IAdd(8, 7, 5), IEcall>>),
       \* 11: taken branch over a store whose base comes from a multiply
       Pad(<<IAddi(SYSCALL_NUM_REG, 0, 93), IAddi(5, 0, DataBase),
             IBeq(0, 0, Off(2, 6)), IMul(6, 5, 5), ISw(5, 6, 0), IAddi(7, 0, 1),
             IAddi(8, 0, 2), IEcall>>),
       \* 12: not-taken branch, jump with x0 as link register, byte store and load
       Pad(<<IAddi(SYSCALL_NUM_REG, 0, 93), IAddi(5, 0, 1), IBeq(5, 0, Off(2, 5)),
             IJal(0, Off(3, 6)), NOP, NOP, ISb(5, 2, 0), ILb(6, 2, 0), NOP, IEcall>>),
       \* 13: jalr sharing its fetch pair with the instruction behind it
       Pad(<<IAddi(SYSCALL_NUM_REG, 0, 93), IAddi(6, 0, At(6)), IJalr(0, 6, 0),
             IAddi(7, 0, 9), NOP, NOP, NOP, IEcall>>),
       \* 14: taken branch, a store with a known base issued on the wrong path
       Pad(<<IAddi(SYSCALL_NUM_REG, 0, 93), IAddi(5, 0, DataBase),
             IBeq(0, 0, Off(2, 8)), NOP, NOP, NOP, ISw(5, 5, 0), NOP, NOP, IEcall>>),
       \* 15: a store with known operands behind a multiply
       Pad(<<IAddi(SYSCALL_NUM_REG, 0, 93), IAddi(5, 0, DataBase), NOP, NOP,
             IMul(7, 5, 5), ISw(5, 5, 0), NOP, IEcall>>),
       \* 16: a branch waiting on a load, and on its wrong path a load from an
       \* address between the data image and the stack
       Pad(<<IAddi(SYSCALL_NUM_REG, 0, 93), ILw(5, 2, 0), IBeq(5, 0, Off(2, 6)),
             ILw(6, 0, VEndInit + 16), NOP, NOP, NOP, IEcall>>),
       \* 17: an atomic add, first of its fetch pair, operands long since retired
       Pad(<<IAddi(5, 0, DataBase), IAddi(6, 0, 20), NOP, NOP, NOP, NOP, NOP, NOP,
             IAmoaddw(7, 6, 5), NOP, IAddi(SYSCALL_NUM_REG, 0, 93), NOP, IEcall>>),
       \* 18: count x1 down from 3 with a backward branch, then exit
       Pad(<<IAddi(SYSCALL_NUM_REG, 0, 93), IAddi(1, 0, 3), IAddi(1, 1, -1),
             IBne(1, 0, Off(3, 2)), IEcall>>),
       \* 19: the same loop starting on a fetch-pair boundary
       Pad(<<IAddi(SYSCALL_NUM_REG, 0, 93), NOP, IAddi(1, 0, 3), IAddi(1, 1, -1),
             IBne(1, 0, Off(4, 3)), IEcall>>),
       \* 20: a store below and a jalr above a base register still in flight
       Pad(<<IAddi(SYSCALL_NUM_REG, 0, 93), IAddi(5, 0, DataBase + 4), ISw(5, 5, -4),
             IAddi(6, 0, At(7) - 4), IJalr(0, 6, 4), IAddi(7, 0, 9), NOP, IEcall>>),
       \* 21: taken branch over a multiply into x5; x5 is read at the target
       Pad(<<IBeq(0, 0, Off(0, 2)), IMul(5, 0, 0), NOP, IAdd(6, 5, 0),
             IAddi(SYSCALL_NUM_REG, 0, 93), IEcall>>),
       \* 22: count x5 down from 4: the closing branch is taken three times
       Pad(<<IAddi(SYSCALL_NUM_REG, 0, 93), IAddi(5, 0, 4), IAddi(5, 5, -1),
             IBne(5, 0, Off(3, 2)), NOP, NOP, NOP, NOP, NOP, NOP, NOP, NOP, NOP,
             IEcall>>),
       \* 23: a taken branch waiting on a multiply, and on its wrong path a
       \* store whose base and value are known
       Pad(<<IAddi(SYSCALL_NUM_REG, 0, 93), IAddi(5, 0, DataBase), IMul(6, 5, 0),
             IBne(6, 0, Off(3, 8)), ISw(5, 5, 0), NOP, NOP, NOP, NOP, NOP, NOP,
             IEcall>>),
       \* 24: a word store held behind a slow load, and a byte load of its
       \* second byte
       Pad(<<IAddi(5, 0, DataBase), IAddi(6, 0, 773), ILw(9, 2, 0), ISw(6, 5, 0),
             ILb(7, 5, 1), IAddi(SYSCALL_NUM_REG, 0, 93), NOP, IEcall>>),
       \* 25: behind a slow load and a store, a load of the store's address
       \* and a younger load of another address
       Pad(<<IAddi(5, 0, DataBase), IAddi(6, 0, 773), ILw(9, 2, 0), ISw(6, 5, 0),
             ILw(7, 5, 0), ILw(8, 5, 4), IAddi(SYSCALL_NUM_REG, 0, 93), NOP,
             IEcall>>)
    >>

\* Instruction::new(memory.read_inst(pc)): words outside the text image do
\* not decode to an instruction of the program
FetchOk(pc) ==
    /\ TextBase <= pc /\ pc < TextEnd
    /\ (pc - TextBase) % WORD_SIZE = 0

Fetch(prog, pc) == Programs[prog][(pc - TextBase) \div WORD_SIZE + 1]

\* ProcessMemory::new: zeroed data image up to the end of the loaded
\* segments, zeroed stack at the top of the address space
MemInit ==
    [v1 |-> VEndInit,
     data |-> [i \in 1..VEndInit |-> 0],
     stack |-> [i \in 1..StackSize |-> 0]]

\* ---------------------------------------------------------- system calls
\* value the host returns for getuid / geteuid / getgid / getegid
HostId == 7

Resize(buf, n) == [i \in 1..n |-> IF i <= Len(buf) THEN buf[i] ELSE 0]

\* Pipeline::system_call on [reg, memory]: ok is FALSE for SyscallError.
\* The calls doing host I/O (64, 78, 80, 160) are not used by the programs.
system_call(reg, memory) ==
    LET n == reg.gpr[SYSCALL_NUM_REG]
        addr == reg.gpr[SYSCALL_ARG1_REG]
    IN IF n \in 174..177
       THEN [ok |-> TRUE, reg |-> RegWrite(reg, SYSCALL_RET_REG, HostId),
             memory |-> memory]
       ELSE IF n = 214
       THEN [ok |-> TRUE, reg |-> RegWrite(reg, SYSCALL_RET_REG, addr),
             memory |->
                IF memory.v1 <= addr
                THEN [memory EXCEPT !.data = Resize(memory.data, addr - memory.v1 + 1),
                                    !.v1 = addr + 1]
                ELSE memory]
       ELSE [ok |-> FALSE, reg |-> reg, memory |-> memory]

\* ---------------------------------------------------------------- retire
BoolWord(b) == IF b THEN 1 ELSE 0

\* variant: every retiring branch is reported as mispredicted
MispredictedAlways(e) == e.inst.op = "Branch"

\* ReorderBufferEntry::retire, the Branch arm: TRUE is a misprediction
Mispredicted(e) == e.inst.op = "Branch" /\ e.reg_value # BoolWord(e.branch_pred)

\* variant: the rename pointer of rd is cleared whoever owns it
RetireWriteBackClearing(reg, e, old_index) ==
    IF e.reg_value = NoneV THEN reg
    ELSE [RegWrite(reg, e.rd, e.reg_value) EXCEPT !.related_rob[e.rd] = NoneV]

\* the write-back arm of ReorderBufferEntry::retire
RetireWriteBack(reg, e, old_index) ==
    IF e.reg_value = NoneV THEN reg
    ELSE LET reg1 == RegWrite(reg, e.rd, e.reg_value)
         IN IF reg1.related_rob[e.rd] = old_index
            THEN [reg1 EXCEPT !.related_rob[e.rd] = NoneV]
            ELSE reg1

\* Pipeline::commit, Branch arm: the corrected pc
BranchTarget(e) ==
    IF e.reg_value # 0 THEN wrapping_add(e.pc, e.inst.imm)
    ELSE wrapping_add(e.pc, WORD_SIZE)

\* BranchPredictor::update reaches one of its four cases
UpdateOk(bp, pc, is_taken) == pc \in DOMAIN bp /\ is_taken \in {0, 1}

\* ----------------------------------------------------------------- issue
\* variant: only an Ecall holds the issue phase back
has_to_stall_ecall(rob) ==
    /\ Len(rob.index_queue) > 0
    /\ RobSeq(rob)[Len(rob.index_queue)].e.inst.f = "Ecall"

\* Pipeline::issue: the youngest entry is an unfinished Jalr, or an Ecall
has_to_stall(rob) ==
    /\ Len(rob.index_queue) > 0
    /\ LET e == RobSeq(rob)[Len(rob.index_queue)].e
       IN \/ e.inst.f = "Jalr" /\ ~is_completed(e)
          \/ e.inst.f = "Ecall"

\* reg_value of the instructions that need no functional unit
IssueValue(pc, inst) ==
    CASE inst.op = "Lui" -> inst.imm
      [] inst.op = "AuiPc" -> wrapping_add(pc, inst.imm)
      [] inst.op \in {"Jal", "Jalr"} -> wrapping_add(pc, WORD_SIZE)
      [] inst.op = "Amo" /\ inst.f = "Scw" -> 0
      [] OTHER -> NoneV

\* renaming and the value known at issue, once the entry idx is dispatched
IssueFinish(p, idx, pc, inst) ==
    LET v == IssueValue(pc, inst)
        rob1 == IF v = NoneV THEN p.rob
                ELSE RobSet(p.rob, idx, [RobGet(p.rob, idx) EXCEPT !.reg_value = v])
        reg1 == IF inst.rd = NoneV THEN p.reg
                ELSE set_reg_rob_index(p.reg, inst.rd, idx)
    IN [p EXCEPT !.rob = rob1, !.reg = reg1]

\* one iteration of the loop of Pipeline::issue over
\* p = [reg, rob, rs, lb, bp, ok, n, failed]; failed holds the instruction
\* whose issue panicked
IssueOne(p, pc, inst, stamp) ==
    IF ~p.ok THEN p
    ELSE IF ~RobIssueOk(p.reg, p.rob, inst)
    THEN [p EXCEPT !.ok = FALSE, !.failed = {inst}]
    ELSE LET added == RobAdd(p.rob, NewRobEntry(p.reg, p.rob, p.bp, pc, inst, stamp))
             idx == added[1]
             p1 == [p EXCEPT !.rob = added[2],
                             !.bp = IF inst.op = "Branch"
                                    THEN predict_insert(p.bp, pc) ELSE p.bp]
         IN IF inst.op = "Load"
            THEN IssueFinish([p1 EXCEPT !.lb = LoadIssue(p.lb, idx, inst, p.reg, p1.rob)],
                             idx, pc, inst)
            ELSE IF ~RsIssueOk(inst, p.reg, p1.rob)
            THEN [p1 EXCEPT !.ok = FALSE, !.failed = {inst}]
            ELSE IssueFinish([p1 EXCEPT !.rs = RsIssue(p.rs, idx, inst, p.reg, p1.rob)],
                             idx, pc, inst)

\* ------------------------------------------- in-order reference interpreter
\* One instruction at a time on r = [pc, gpr, mem, halted, ok]: the RV32IMA
\* meaning of each instruction; ok is FALSE once the run cannot continue.
SignExtByte(v) == IF v < 128 THEN v ELSE (v + Word - 256) % Word

RefSet(r, rd, v) ==
    [r EXCEPT !.gpr[rd] = IF rd = 0 THEN 0 ELSE v,
              !.pc = wrapping_add(r.pc, WORD_SIZE)]

RefLoad(r, i, a) ==
    IF ~ReadOk(r.mem, a, LoadSize(i.f)) THEN [r EXCEPT !.ok = FALSE]
    ELSE RefSet(r, i.rd,
                IF i.f = "Lb" THEN SignExtByte(MemRead(r.mem, a, 1))
                ELSE MemRead(r.mem, a, LoadSize(i.f)))

RefStore(r, a, size, v, rd, rdv) ==
    IF ~WriteOk(r.mem, a, size) THEN [r EXCEPT !.ok = FALSE]
    ELSE [RefSet(r, rd, rdv) EXCEPT !.mem = MemWrite(r.mem, a, size, v)]

RefEcall(r) ==
    LET sys == system_call([gpr |-> r.gpr], r.mem)
    IN IF r.gpr[SYSCALL_NUM_REG] \in {93, 94} THEN [r EXCEPT !.halted = TRUE]
       ELSE IF ~sys.ok THEN [r EXCEPT !.ok = FALSE]
       ELSE [r EXCEPT !.gpr = sys.reg.gpr, !.mem = sys.memory,
                      !.pc = wrapping_add(r.pc, WORD_SIZE)]

RefTaken(i, a, b) == IF i.f = "Beq" THEN a = b ELSE a # b

RefExec(r, i) ==
    LET a == IF i.rs1 = NoneV THEN 0 ELSE r.gpr[i.rs1]
        b == IF i.rs2 = NoneV THEN 0 ELSE r.gpr[i.rs2]
    IN CASE i.op = "OpImm" -> RefSet(r, i.rd, wrapping_add(a, i.imm))
         [] i.op = "Op" ->
              RefSet(r, i.rd, CASE i.f = "Add" -> wrapping_add(a, b)
                                [] i.f = "Sub" -> (a + Word - b) % Word
                                [] OTHER -> MulLow(a, b))
         [] i.op = "Lui" -> RefSet(r, i.rd, i.imm)
         [] i.op = "Load" -> RefLoad(r, i, wrapping_add(a, i.imm))
         [] i.op = "Store" ->
              RefStore(r, wrapping_add(a, i.imm), StoreSize(i.f), b, 0, 0)
         [] i.op = "Branch" ->
              [r EXCEPT !.pc = IF RefTaken(i, a, b) THEN wrapping_add(r.pc, i.imm)
                               ELSE wrapping_add(r.pc, WORD_SIZE)]
         [] i.op = "Jal" ->
              [RefSet(r, i.rd, wrapping_add(r.pc, WORD_SIZE)) EXCEPT
                  !.pc = wrapping_add(r.pc, i.imm)]
         [] i.op = "Jalr" ->
              [RefSet(r, i.rd, wrapping_add(r.pc, WORD_SIZE)) EXCEPT
                  !.pc = wrapping_add(a, i.imm)]
         [] i.op = "Amo" /\ i.f = "Scw" -> RefStore(r, a, WORD_SIZE, b, i.rd, 0)
         [] i.op = "Amo" ->
              IF ~ReadOk(r.mem, a, WORD_SIZE) THEN [r EXCEPT !.ok = FALSE]
              ELSE RefStore(r, a, WORD_SIZE,
                            amo_mem_val(i.f, MemRead(r.mem, a, WORD_SIZE), b),
                            i.rd, MemRead(r.mem, a, WORD_SIZE))
         [] OTHER -> RefEcall(r)

RefRunning(r) == r.ok /\ ~r.halted

RefStep(r, program) ==
    IF ~RefRunning(r) THEN r
    ELSE IF ~FetchOk(r.pc) THEN [r EXCEPT !.ok = FALSE]
    ELSE RefExec(r, Fetch(program, r.pc))

RefInit ==
    [pc |-> TextBase, gpr |-> RegInit(TextBase, StackPointerInit).gpr,
     mem |-> MemInit, halted |-> FALSE, ok |-> TRUE]

\* longest reference run followed to its end
MaxRefSteps == 64

RECURSIVE RefRun(_, _, _)
RefRun(r, program, fuel) ==
    IF fuel = 0 \/ ~RefRunning(r) THEN r
    ELSE RefRun(RefStep(r, program), program, fuel - 1)

RefFinal(program) == RefRun(RefInit, program, MaxRefSteps)

\* ================================================================= state
\* longest run followed, in clock cycles
MaxClock == 40

VARIABLES
    prog,               \* which text image is loaded
    print_steps,        \* OPTS.print_steps of main
    cut_short,          \* the cycles whose run_clock returned after commit
    reg,                \* Pipeline.reg: pc, gpr, related_rob
    memory,             \* Pipeline.memory
    rob,                \* Pipeline.rob
    rs,                 \* Pipeline.rs: address_unit, station
    lb,                 \* Pipeline.lb
    func_units,         \* FunctionalUnits.buf
    branch_predictor,   \* BranchPredictor.branch_map
    phase,              \* position inside run_clock
    status,             \* "running", "finished" (run_clock's early return), "panic"
    clock,              \* number of completed cycles
    batch,              \* commit: entries popped from the ROB, not yet retired
    batch_squashed,     \* commit: a misprediction was met earlier in this batch
    batch_ecall,        \* commit: an Ecall is among this cycle's retired entries
    next_stamp,         \* history: number of instructions issued so far
    retired,            \* history: the retired entries, in retire order
    ref,                \* history: the reference interpreter, one step per retire
    ref_pcs,            \* history: the pc of each reference step
    arch_val,           \* history: last value retire or a syscall wrote to each gpr
    dest_val,           \* history: value of the last retired instruction naming r as rd
    ev,                 \* history: what the last step did
    fin_clock,          \* history: ROB index -> cycle in which its result was produced
    issue_log,          \* history: per issued instruction, how it was issued
    phases_run          \* history: the phases run so far by this run_clock call

vars ==
    <<prog, print_steps, cut_short, reg, memory, rob, rs, lb, func_units, branch_predictor,
      phase, status, clock, batch, batch_squashed, batch_ecall, next_stamp, retired, ref, ref_pcs,
      arch_val, dest_val, ev, fin_clock, issue_log, phases_run>>

machine == <<reg, memory, rob, rs, lb, func_units, branch_predictor>>
history == <<next_stamp, retired, ref, ref_pcs, arch_val, dest_val, issue_log>>

Event(kind) == [kind |-> kind]

\* variant: issue and execute change places
NextPhaseSwapped(ph) ==
    CASE ph = "retire" -> "write_result"
      [] ph = "write_result" -> "issue"
      [] ph = "issue" -> "execute"
      [] OTHER -> "commit"

\* Pipeline::run_clock: the phase that follows ph (commit ends in "retire");
\* after issue the next call starts with commit
NextPhase(ph) ==
    CASE ph = "retire" -> "write_result"
      [] ph = "write_result" -> "execute"
      [] ph = "execute" -> "issue"
      [] OTHER -> "commit"

\* Pipeline::new on a freshly loaded image
Init ==
    /\ prog \in 1..Len(Programs)
    /\ print_steps \in BOOLEAN
    /\ cut_short = {}
    /\ reg = RegInit(TextBase, StackPointerInit)
    /\ memory = MemInit
    /\ rob = RobEmpty
    /\ rs = RsEmpty
    /\ lb = <<>>
    /\ func_units = EmptyFcn
    /\ branch_predictor = EmptyFcn
    /\ phase = "commit"
    /\ status = "running"
    /\ clock = 0
    /\ batch = <<>>
    /\ batch_squashed = FALSE
    /\ batch_ecall = FALSE
    /\ next_stamp = 0
    /\ retired = <<>>
    /\ ref = RefInit
    /\ ref_pcs = <<>>
    /\ arch_val = RegInit(TextBase, StackPointerInit).gpr
    /\ dest_val = RegInit(TextBase, StackPointerInit).gpr
    /\ ev = Event("init")
    /\ fin_clock = EmptyFcn
    /\ issue_log = <<>>
    /\ phases_run = <<>>

\* --------------------------------------------------------------- commit
\* Pipeline::commit, first statement: the completed prefix leaves the ROB
CommitBegin ==
    /\ status = "running" /\ phase = "commit" /\ clock < MaxClock
    /\ LET r == completed_entries(rob)
       IN /\ rob' = r[2]
          /\ batch' = r[1]
    /\ phase' = "retire"
    /\ batch_squashed' = FALSE
    /\ batch_ecall' = FALSE
    /\ ev' = Event("commit")
    /\ phases_run' = <<"commit">>
    /\ UNCHANGED <<prog, print_steps, cut_short, reg, memory, rs, lb, func_units, branch_predictor, status,
                   clock, history, fin_clock>>

\* Pipeline::clear_all_buffers
clear_all_buffers(p) ==
    [p EXCEPT !.rs = RsClear(p.rs), !.lb = <<>>, !.rob = RobClear(p.rob)]

\* One iteration of the loop of Pipeline::commit: the next entry of the batch
\* retires (ReorderBufferEntry::retire), and a mispredicted branch squashes.
\* p = [reg, memory, rob, rs, lb, bp, ok]
RetireEntry(p, idx, e) ==
    LET sys == system_call(p.reg, p.memory)
    IN CASE e.mem_exception # "Ok" -> [p EXCEPT !.ok = FALSE]
         [] e.inst.op = "Branch" ->
              IF ~UpdateOk(p.bp, e.pc, e.reg_value) THEN [p EXCEPT !.ok = FALSE]
              ELSE LET p1 == [p EXCEPT !.bp = update(p.bp, e.pc, e.reg_value)]
                   IN IF Mispredicted(e)
                      THEN [clear_all_buffers(p1) EXCEPT !.reg.pc = BranchTarget(e)]
                      ELSE p1
         [] e.inst.f = "Ecall" ->
              IF ~sys.ok THEN [p EXCEPT !.ok = FALSE]
              ELSE [p EXCEPT !.reg = sys.reg, !.memory = sys.memory]
         [] OTHER -> [p EXCEPT !.reg = RetireWriteBack(p.reg, e, idx)]

CommitStep ==
    /\ status = "running" /\ phase = "retire" /\ batch # <<>>
    /\ LET idx == Head(batch).idx
           e == Head(batch).e
           p == [reg |-> reg, memory |-> memory, rob |-> rob, rs |-> rs,
                 lb |-> lb, bp |-> branch_predictor, ok |-> TRUE]
           q == RetireEntry(p, idx, e)
           squash == q.ok /\ Mispredicted(e)
       IN /\ reg' = q.reg
          /\ memory' = q.memory
          /\ rob' = q.rob
          /\ rs' = q.rs
          /\ lb' = q.lb
          /\ branch_predictor' = q.bp
          /\ status' = IF q.ok THEN "running" ELSE "panic"
          /\ batch' = Tail(batch)
          /\ batch_squashed' = (batch_squashed \/ squash)
          /\ batch_ecall' = (batch_ecall \/ e.inst.f = "Ecall")
          /\ retired' = Append(retired,
                                [pc |-> e.pc, stamp |-> e.stamp, clock |-> clock,
                                 exit |-> e.inst.f = "Ecall"
                                          /\ reg.gpr[SYSCALL_NUM_REG] \in {93, 94},
                                 squash |-> squash])
          /\ ref' = RefStep(ref, prog)
          /\ ref_pcs' = Append(ref_pcs, IF RefRunning(ref) THEN ref.pc ELSE NoneV)
          /\ arch_val' = [r \in Regs |->
                            IF r # 0 /\ r = e.rd /\ e.reg_value # NoneV
                               /\ e.inst.op # "Branch" /\ e.inst.f # "Ecall"
                            THEN e.reg_value
                            ELSE IF r = SYSCALL_RET_REG /\ e.inst.f = "Ecall" /\ q.ok
                            THEN system_call(reg, memory).reg.gpr[r]
                            ELSE arch_val[r]]
          /\ dest_val' = [r \in Regs |->
                            IF e.inst.rd = r /\ e.reg_value # NoneV
                            THEN e.reg_value ELSE dest_val[r]]
          /\ ev' = [kind |-> "retire", idx |-> idx, e |-> e, ok |-> q.ok,
                    squash |-> squash, after_squash |-> batch_squashed,
                    gpr_write |-> q.reg.gpr # reg.gpr,
                    mem_write |-> q.memory # memory,
                    syscall |-> e.inst.f = "Ecall"]
    /\ UNCHANGED <<prog, print_steps, cut_short, func_units, phase, clock, next_stamp, phases_run,
                   fin_clock, issue_log>>

\* Pipeline::is_program_finished on this cycle's retired entries
is_program_finished == batch_ecall /\ reg.gpr[SYSCALL_NUM_REG] \in {93, 94}

\* run_clock after commit: return when finished, else go on to write_result.
\* The loop of main leaves (break) on a finished call only inside
\* `if OPTS.print_steps`; otherwise it calls run_clock again.
CommitEnd ==
    /\ status = "running" /\ phase = "retire" /\ batch = <<>>
    /\ status' = IF is_program_finished /\ print_steps THEN "finished" ELSE "running"
    /\ phase' = IF is_program_finished THEN "commit" ELSE NextPhase("retire")
    /\ clock' = IF is_program_finished THEN clock + 1 ELSE clock
    /\ ev' = [kind |-> "commit_end", finished |-> is_program_finished]
    /\ cut_short' = IF is_program_finished THEN cut_short \cup {clock} ELSE cut_short
    /\ UNCHANGED <<prog, print_steps, machine, batch, batch_squashed, batch_ecall,
                   history, phases_run, fin_clock>>

\* ---------------------------------------------------------- write result
\* the broadcast of one finished job to RS, load buffer and ROB
\* w = [rob, rs, lb]
Broadcast(w, job) ==
    [rob |-> RobPropagate(w.rob, job),
     rs |-> RsPropagate(w.rs, job),
     lb |-> LbPropagate(w.lb, job.rob_idx, job.reg_value)]

RECURSIVE BroadcastSeq(_, _)
BroadcastSeq(w, jobs) ==
    IF jobs = <<>> THEN w ELSE BroadcastSeq(Broadcast(w, Head(jobs)), Tail(jobs))

RECURSIVE BroadcastSet(_, _)
BroadcastSet(w, jobs) ==
    IF jobs = {} THEN w
    ELSE LET j == CHOOSE x \in jobs : TRUE
         IN BroadcastSet(Broadcast(w, j), jobs \ {j})

\* ReservationStation::completed_jobs: the popped loads, then the finished
\* station entries (which leave the station)
LoadJobs(popped) ==
    [k \in 1..Len(popped) |-> FinishedCalc(popped[k].rob_index, popped[k].value)]

GeneralJobs(station) ==
    {FinishedCalc(station[i].rob_index, station[i].value) :
        i \in StationFinished(station)}

WriteResult ==
    /\ status = "running" /\ phase = "write_result"
    /\ LET pf == pop_finished(lb)
           generals == GeneralJobs(rs.station)
           w0 == [rob |-> rob,
                  rs |-> [rs EXCEPT !.station =
                             MapDel(rs.station, StationFinished(rs.station))],
                  lb |-> pf[2]]
           w == BroadcastSet(BroadcastSeq(w0, LoadJobs(pf[1])), generals)
       IN /\ rob' = w.rob
          /\ rs' = w.rs
          /\ lb' = w.lb
          /\ ev' = [kind |-> "write_result", loads |-> LoadJobs(pf[1]),
                    generals |-> generals]
    /\ phase' = NextPhase("write_result")
    /\ phases_run' = Append(phases_run, "write_result")
    /\ UNCHANGED <<prog, print_steps, cut_short, reg, memory, func_units, branch_predictor, status, clock,
                   batch, batch_squashed, batch_ecall, history, fin_clock>>

\* --------------------------------------------------------------- execute
\* ReservationStation::execute (address unit, store of the ROB head, station)
\* followed by LoadBuffer::execute; npc is what the address unit returned.
Execute ==
    /\ status = "running" /\ phase = "execute"
    /\ \E npc \in NpcChoices(rs.address_unit) :
        LET au_ok == AddressExecOk(rs.address_unit, rob)
            rob1 == AddressExecRob(rs.address_unit, rob)
            head_idx == StoreEntryIndex(rob1)
            head == RobGet(rob1, head_idx)
            fires == HeadIsStore(rob1) /\ StoreFires(head)
            st_ok == ~fires \/ WriteOk(memory, head.addr.v, StoreSize(head.inst.f))
            mem1 == IF fires
                    THEN MemWrite(memory, head.addr.v, StoreSize(head.inst.f),
                                  head.mem_value.v)
                    ELSE memory
            rob2 == IF fires
                    THEN RobSet(rob1, head_idx, [head EXCEPT !.mem_rem_cycle = 0])
                    ELSE rob1
            st == LoadExec([lb |-> lb, fu |-> func_units, ok |-> TRUE, reads |-> {},
                            faults |-> {}],
                           1, rob2, mem1)
            station1 == StationExec(rs.station)
            started == {i \in DOMAIN rs.station :
                           rs.station[i].status = "Wait" /\ station1[i].status # "Wait"}
            produced == {i \in DOMAIN rs.station :
                            rs.station[i].status # "Finished"
                            /\ station1[i].status = "Finished"}
                        \cup {lb[k].rob_index : k \in {j \in 1..Len(lb) :
                                  lb[j].status # "Finished"
                                  /\ st.lb[j].status = "Finished"}}
        IN IF au_ok /\ st_ok /\ st.ok
           THEN /\ rob' = rob2
                /\ memory' = mem1
                /\ rs' = [address_unit |-> AddressExecUnit(rs.address_unit),
                          station |-> station1]
                /\ fin_clock' = [i \in DOMAIN fin_clock \cup produced |->
                                    IF i \in produced THEN clock ELSE fin_clock[i]]
                /\ lb' = st.lb
                /\ func_units' = st.fu
                /\ reg' = IF npc = 0 THEN reg ELSE [reg EXCEPT !.pc = npc]
                /\ status' = "running"
                /\ phase' = NextPhase("execute")
                /\ ev' = [kind |-> "execute", reads |-> st.reads, stored |-> fires,
                          stored_idx |-> IF fires THEN head_idx ELSE NoneV,
                          faults |-> {},
                          started |-> {[idx |-> i, waits |-> rs.station[i].waits] :
                                          i \in started}]
           ELSE /\ status' = "panic"
                /\ ev' = [kind |-> "execute", reads |-> {}, stored |-> FALSE,
                          stored_idx |-> NoneV,
                          faults |-> IF au_ok /\ st_ok THEN st.faults ELSE {},
                          started |-> {}]
                /\ UNCHANGED <<reg, memory, rob, rs, lb, func_units, phase, fin_clock>>
    /\ phases_run' = Append(phases_run, "execute")
    /\ UNCHANGED <<prog, print_steps, cut_short, branch_predictor, clock, batch, batch_squashed, batch_ecall,
                   history>>

\* ----------------------------------------------------------------- issue
\* Pipeline::issue: two words are fetched and decoded, pc moves past them,
\* then they are issued in order; a Jal redirects pc and ends the loop.
IssuePair(p, pc, i1, i2, stamp) ==
    LET p0 == [p EXCEPT !.reg.pc = wrapping_add(pc, 2 * WORD_SIZE)]
        p1 == IssueOne(p0, pc, i1, stamp)
    IN IF ~p1.ok THEN p1
       ELSE IF i1.op = "Jal"
       THEN [p1 EXCEPT !.reg.pc = wrapping_add(pc, i1.imm), !.n = 1]
       ELSE LET pc2 == wrapping_add(pc, WORD_SIZE)
                p2 == [IssueOne(p1, pc2, i2, stamp + 1) EXCEPT !.n = 2]
            IN IF p2.ok /\ i2.op = "Jal"
               THEN [p2 EXCEPT !.reg.pc = wrapping_add(pc2, i2.imm)]
               ELSE p2

\* the ROB indices of the n entries Pipeline::issue allocated last
IssuedIndex(rb, n, k) == rb.index_queue[Len(rb.index_queue) - n + k]
IssuedIndices(rb, n) == {IssuedIndex(rb, n, k) : k \in 1..n}

\* what this issue phase allocated, one record per entry: whether it went to
\* the station, the ROB indices it waits on, whether one of them has not
\* produced its result yet (fin), and its latency
IssueRecord(rb, st, idx, fin, clk) ==
    LET w == IF idx \in DOMAIN st.station THEN st.station[idx].waits ELSE {}
    IN [clock |-> clk,
        station |-> idx \in DOMAIN st.station,
        waits |-> w,
        late |-> \E j \in w : j \notin DOMAIN fin,
        lat |-> remain_clock(RobGet(rb, idx).inst.f)]

IssueRecords(rb, st, n, fin, clk) ==
    [k \in 1..n |-> IssueRecord(rb, st, IssuedIndex(rb, n, k), fin, clk)]

Issue ==
    /\ status = "running" /\ phase = "issue"
    /\ LET pc == reg.pc
           pc2 == wrapping_add(pc, WORD_SIZE)
           p == [reg |-> reg, rob |-> rob, rs |-> rs, lb |-> lb,
                 bp |-> branch_predictor, ok |-> TRUE, n |-> 0, failed |-> {}]
           q == IF has_to_stall(rob) THEN p
                ELSE IF ~(FetchOk(pc) /\ FetchOk(pc2)) THEN [p EXCEPT !.ok = FALSE]
                ELSE IssuePair(p, pc, Fetch(prog, pc), Fetch(prog, pc2), next_stamp)
       IN /\ reg' = q.reg
          /\ rob' = q.rob
          /\ rs' = q.rs
          /\ lb' = q.lb
          /\ branch_predictor' = q.bp
          /\ next_stamp' = next_stamp + q.n
          /\ fin_clock' = MapDel(fin_clock, IssuedIndices(q.rob, q.n))
          /\ issue_log' = issue_log \o IssueRecords(q.rob, q.rs, q.n, fin_clock', clock)
          /\ status' = IF q.ok THEN "running" ELSE "panic"
          /\ ev' = [kind |-> "issue", n |-> q.n, stalled |-> has_to_stall(rob),
                    failed |-> q.failed]
    /\ phase' = NextPhase("issue")
    /\ clock' = clock + 1
    /\ phases_run' = Append(phases_run, "issue")
    /\ UNCHANGED <<prog, print_steps, cut_short, memory, func_units, batch, batch_squashed, batch_ecall,
                   retired, ref, ref_pcs, arch_val, dest_val>>

\* Pipeline::run_clock, phase by phase
Next ==
    \/ CommitBegin
    \/ CommitStep
    \/ CommitEnd
    \/ WriteResult
    \/ Execute
    \/ Issue

Spec == Init /\ [][Next]_vars

\* main.rs calls run_clock until the program has finished, and run_clock runs
\* its phases one after the other: while the machine is running (and the
\* clock bound is not reached) the next phase is entered
RunClockCalled ==
    /\ status = "running"
    /\ phase = "commit" => clock < MaxClock
    /\ phase' \in {"commit", "retire", "write_result", "execute", "issue"}

SpecLive == Spec /\ WF_phase(RunClockCalled)

\* ----------------------------------------- the branch predictor on its own
\* BranchPredictor driven by every sequence of predict and update calls:
\* predict(pc) on a pc not seen before, update(pc, is_taken) on a pc seen;
\* ev keeps the outcomes given for each pc.
MaxUpdates == 4

BranchPcs == {At(2), At(3)}

InitBP ==
    /\ prog = 1
    /\ print_steps = FALSE
    /\ cut_short = {}
    /\ reg = RegInit(TextBase, StackPointerInit)
    /\ memory = MemInit
    /\ rob = RobEmpty
    /\ rs = RsEmpty
    /\ lb = <<>>
    /\ func_units = EmptyFcn
    /\ branch_predictor = EmptyFcn
    /\ phase = "issue"
    /\ status = "predictor"
    /\ clock = 0
    /\ batch = <<>>
    /\ batch_squashed = FALSE
    /\ batch_ecall = FALSE
    /\ next_stamp = 0
    /\ retired = <<>>
    /\ ref = RefInit
    /\ ref_pcs = <<>>
    /\ arch_val = RegInit(TextBase, StackPointerInit).gpr
    /\ dest_val = RegInit(TextBase, StackPointerInit).gpr
    /\ fin_clock = EmptyFcn
    /\ issue_log = <<>>
    /\ phases_run = <<>>
    /\ ev = [kind |-> "init", pc |-> NoneV, before |-> <<FALSE, FALSE>>,
             outcomes |-> [pc \in BranchPcs |-> <<>>]]

\* BranchPredictor::predict on a pc without entry
BpPredict ==
    /\ status = "predictor"
    /\ \E pc \in BranchPcs \ DOMAIN branch_predictor :
          /\ branch_predictor' = predict_insert(branch_predictor, pc)
          /\ ev' = [ev EXCEPT !.kind = "predict", !.pc = pc]
    /\ UNCHANGED <<prog, print_steps, cut_short, reg, memory, rob, rs, lb, func_units, phase, status, clock,
                   batch, batch_squashed, batch_ecall, history, fin_clock, phases_run>>

\* BranchPredictor::update
BpUpdate ==
    /\ status = "predictor"
    /\ \E pc \in DOMAIN branch_predictor, is_taken \in {0, 1} :
          /\ Len(ev.outcomes[pc]) < MaxUpdates
          /\ branch_predictor' = update(branch_predictor, pc, is_taken)
          /\ ev' = [kind |-> "update", pc |-> pc, before |-> branch_predictor[pc],
                    outcomes |-> [ev.outcomes EXCEPT
                                     ![pc] = Append(ev.outcomes[pc], is_taken)]]
    /\ UNCHANGED <<prog, print_steps, cut_short, reg, memory, rob, rs, lb, func_units, phase, status, clock,
                   batch, batch_squashed, batch_ecall, history, fin_clock, phases_run>>

NextBP ==
    \/ BpPredict
    \/ BpUpdate

SpecBP == InitBP /\ [][NextBP]_vars

\* --------------------------------------------- pure functions on their own
\* every variable as Pipeline::new leaves it, the run marked st and the
\* event e
InitWith(st, e) ==
    /\ prog = 1
    /\ print_steps = FALSE
    /\ cut_short = {}
    /\ reg = RegInit(TextBase, StackPointerInit)
    /\ memory = MemInit
    /\ rob = RobEmpty
    /\ rs = RsEmpty
    /\ lb = <<>>
    /\ func_units = EmptyFcn
    /\ branch_predictor = EmptyFcn
    /\ phase = "issue"
    /\ status = st
    /\ clock = 0
    /\ batch = <<>>
    /\ batch_squashed = FALSE
    /\ batch_ecall = FALSE
    /\ next_stamp = 0
    /\ retired = <<>>
    /\ ref = RefInit
    /\ ref_pcs = <<>>
    /\ arch_val = RegInit(TextBase, StackPointerInit).gpr
    /\ dest_val = RegInit(TextBase, StackPointerInit).gpr
    /\ fin_clock = EmptyFcn
    /\ issue_log = <<>>
    /\ phases_run = <<>>
    /\ ev = e

\* the functions alu is called with for the RV32IM arithmetic instructions
AluFunctions ==
    {"Add", "Sub", "Slt", "Sltu", "And", "Or", "Xor", "Sll", "Srl", "Sra",
     "Addi", "Slti", "Sltiu", "Andi", "Ori", "Xori",
     "Mul", "Mulh", "Mulhsu", "Mulhu", "Div", "Divu", "Rem", "Remu"}

\* input words: small ones, the shift widths, both sides of the sign
\* boundary and the largest ones
AluInputs ==
    {0, 1, 2, 3, WordBits - 1, WordBits, WordBits + 1, 300, 1000,
     IntMin - 1, IntMin, IntMin + 1, Word - 300, Word - 2, Word - 1}

AluCall(f, a, b, checked) ==
    [kind |-> "alu", f |-> f, a |-> a, b |-> b, checked |-> checked,
     aborted |-> AluAborts(f, a, b) \/ (checked /\ AluOverflows(f, a, b)),
     value |-> alu(f, a, b)]

InitAlu == InitWith("alu", [AluCall("Add", 0, 0, FALSE) EXCEPT !.kind = "init"])

\* one call alu(f, a, b), in a build with or without overflow checks
AluApply ==
    /\ status = "alu"
    /\ \E f \in AluFunctions, a \in AluInputs, b \in AluInputs, checked \in BOOLEAN :
          ev' = AluCall(f, a, b, checked)
    /\ status' = "returned"
    /\ UNCHANGED <<prog, print_steps, cut_short, machine, phase, clock, batch,
                   batch_squashed, batch_ecall, history, fin_clock, phases_run>>

NextAlu == AluApply

SpecAlu == InitAlu /\ [][NextAlu]_vars

\* ReorderBufferEntry::is_completed on entries of every opcode class, with
\* each of addr, mem_value, reg_value and mem_rem_cycle in each of its forms
EntryInsts ==
    {ISw(6, 5, 0), ISb(6, 5, 0), IAmoswapw(7, 6, 5), IScw(7, 6, 5), IJalr(1, 6, 0),
     ILw(7, 5, 0), IAddi(5, 0, 3), IBeq(5, 0, 8), IJal(1, 8), IEcall}

EntryOperands == {Value(7), Rob(1), OperandDefault}

EntryRegValues == {NoneV, 0, 5}

EntryMemCycles == {0, 1, MEM_CYCLE}

EntryOf(inst, addr, mem_value, reg_value, mem_rem_cycle) ==
    [pc |-> TextBase,
     inst |-> inst,
     reg_value |-> reg_value,
     mem_value |-> mem_value,
     rd |-> IF inst.rd = NoneV THEN 0 ELSE inst.rd,
     addr |-> addr,
     branch_pred |-> FALSE,
     mem_rem_cycle |-> mem_rem_cycle,
     mem_exception |-> "Ok",
     stamp |-> 0]

InitEntry ==
    InitWith("entry",
             [kind |-> "init", result |-> FALSE,
              e |-> EntryOf(NOP, OperandDefault, OperandDefault, NoneV, MEM_CYCLE)])

\* one call entry.is_completed()
EntryIsCompleted ==
    /\ status = "entry"
    /\ \E inst \in EntryInsts, addr \in EntryOperands, mem_value \in EntryOperands,
          reg_value \in EntryRegValues, mem_rem_cycle \in EntryMemCycles :
          LET e == EntryOf(inst, addr, mem_value, reg_value, mem_rem_cycle)
          IN ev' = [kind |-> "is_completed", e |-> e, result |-> is_completed(e)]
    /\ status' = "returned"
    /\ UNCHANGED <<prog, print_steps, cut_short, machine, phase, clock, batch,
                   batch_squashed, batch_ecall, history, fin_clock, phases_run>>

NextEntry == EntryIsCompleted

SpecEntry == InitEntry /\ [][NextEntry]_vars

\* ReservationStation::issue (default arm) and ReservationStation::execute
\* (the loop over the station) on one entry of every arithmetic function,
\* with operands read as values or as names of a producer (ROB entry 2)
MaxStationSteps == 10

StationValues == {0, 3, Word - 1}

StationOperands == {Value(v) : v \in StationValues} \cup {Rob(2)}

StationEvent(kind, before, after, ran, aborted) ==
    [kind |-> kind, before |-> before, after |-> after, ran |-> ran,
     aborted |-> aborted]

StationIdle == RSEntry(1, IAdd(5, 6, 7), Value(0), Value(0), remain_clock("Add"))

InitStation == InitWith("station", StationEvent("init", StationIdle, StationIdle, 0, FALSE))

\* the entry inserted for ROB index 1
StationInsert ==
    /\ status = "station"
    /\ DOMAIN rs.station = {}
    /\ \E f \in AluFunctions, op1 \in StationOperands, op2 \in StationOperands :
          LET e == RSEntry(1, Inst("Op", f, 5, 6, 7, NoneV), op1, op2, remain_clock(f))
          IN /\ rs' = [rs EXCEPT !.station = MapPut(rs.station, 1, e)]
             /\ ev' = StationEvent("issue", e, e, 0, FALSE)
    /\ UNCHANGED <<prog, print_steps, cut_short, reg, memory, rob, lb, func_units,
                   branch_predictor, phase, status, clock, batch, batch_squashed,
                   batch_ecall, history, fin_clock, phases_run>>

\* the call of alu made for an entry that finishes in this execute aborts
StationAborts(e, checked) ==
    /\ e.status # "Finished"
    /\ OperandsReady(e)
    /\ e.remaining_clock - 1 = 0
    /\ \/ AluAborts(e.inst.f, e.operand[1].v, e.operand[2].v)
       \/ checked /\ AluOverflows(e.inst.f, e.operand[1].v, e.operand[2].v)

\* one execute phase of the station; ran counts the phases in which the
\* entry was not finished and had both operands
StationExecute ==
    /\ status = "station"
    /\ 1 \in DOMAIN rs.station
    /\ clock < MaxStationSteps
    /\ \E checked \in BOOLEAN :
          LET e == rs.station[1]
              ran == IF e.status # "Finished" /\ OperandsReady(e)
                     THEN ev.ran + 1 ELSE ev.ran
          IN IF StationAborts(e, checked)
             THEN /\ status' = "panic"
                  /\ rs' = rs
                  /\ ev' = StationEvent("execute", e, e, ran, TRUE)
             ELSE /\ status' = status
                  /\ rs' = [rs EXCEPT !.station = StationExec(rs.station)]
                  /\ ev' = StationEvent("execute", e, StationStep(e), ran, FALSE)
    /\ clock' = clock + 1
    /\ UNCHANGED <<prog, print_steps, cut_short, reg, memory, rob, lb, func_units,
                   branch_predictor, phase, batch, batch_squashed, batch_ecall,
                   history, fin_clock, phases_run>>

\* ReservationStation::propagate with the producer's result
StationPropagate ==
    /\ status = "station"
    /\ 1 \in DOMAIN rs.station
    /\ ~OperandsReady(rs.station[1])
    /\ \E v \in StationValues :
          /\ rs' = RsPropagate(rs, FinishedCalc(2, v))
          /\ ev' = StationEvent("propagate", rs.station[1], rs'.station[1], ev.ran, FALSE)
    /\ UNCHANGED <<prog, print_steps, cut_short, reg, memory, rob, lb, func_units,
                   branch_predictor, phase, status, clock, batch, batch_squashed,
                   batch_ecall, history, fin_clock, phases_run>>

NextStation == StationInsert \/ StationExecute \/ StationPropagate

SpecStation == InitStation /\ [][NextStation]_vars

\* The loop body of Pipeline::issue exactly as src has it (ReorderBuffer::issue,
\* then LoadBuffer::issue or ReservationStation::issue), on instructions of
\* every dispatch class, up to MaxIssued of them
MaxIssued == 3

IssueInsts ==
    {ILui(5, 64), Inst("AuiPc", "AuiPc", 5, NoneV, NoneV, 64), IJal(1, 8),
     IJalr(1, 6, 0), IScw(7, 6, 5), IAddi(5, 0, 3), ISw(6, 5, 0), ILw(7, 5, 0)}

IssueEvent(kind, idx, pc, inst) ==
    [kind |-> kind, idx |-> idx, pc |-> pc, inst |-> inst]

InitIssue == InitWith("issuing", IssueEvent("init", NoneV, TextBase, NOP))

IssueAsWritten ==
    /\ status = "issuing"
    /\ Len(rob.index_queue) < MaxIssued
    /\ \E inst \in IssueInsts :
          LET pc == wrapping_add(TextBase, WORD_SIZE * Len(rob.index_queue))
              added == RobAdd(rob, NewRobEntry(reg, rob, branch_predictor, pc, inst,
                                               next_stamp))
              idx == added[1]
          IN /\ RobIssueOk(reg, rob, inst)
             /\ rob' = added[2]
             /\ lb' = IF inst.op = "Load" THEN LoadIssue(lb, idx, inst, reg, added[2])
                      ELSE lb
             /\ rs' = IF inst.op = "Load" THEN rs
                      ELSE RsIssue(rs, idx, inst, reg, added[2])
             /\ ev' = IssueEvent("issue", idx, pc, inst)
    /\ next_stamp' = next_stamp + 1
    /\ UNCHANGED <<prog, print_steps, cut_short, reg, memory, func_units,
                   branch_predictor, phase, status, clock, batch, batch_squashed,
                   batch_ecall, retired, ref, ref_pcs, arch_val, dest_val, issue_log,
                   fin_clock, phases_run>>

NextIssue == IssueAsWritten

SpecIssue == InitIssue /\ [][NextIssue]_vars

\* The ReorderBuffer alone under add, pop_front, completed_entries and clear.
\* issue_log holds the (index, stamp) pairs of the entries added and not yet
\* popped or cleared, oldest first; at most MaxRobOps entries are added and at
\* most MaxRobLen are held at once.
MaxRobOps == 6

MaxRobLen == 3

RobEvent(kind, idx, stamp) == [kind |-> kind, idx |-> idx, stamp |-> stamp]

InitRob == InitWith("rob", RobEvent("init", NoneV, NoneV))

\* add(entry) of an entry that is or is not completed yet
RobAddStep ==
    /\ status = "rob"
    /\ next_stamp < MaxRobOps
    /\ Len(rob.index_queue) < MaxRobLen
    /\ \E v \in {NoneV, 5} :
          LET e == [NewRobEntry(reg, rob, branch_predictor, TextBase, IAddi(5, 0, 5),
                                next_stamp) EXCEPT !.reg_value = v]
              added == RobAdd(rob, e)
          IN /\ rob' = added[2]
             /\ issue_log' = Append(issue_log, [idx |-> added[1], stamp |-> next_stamp])
             /\ ev' = RobEvent("add", added[1], next_stamp)
    /\ next_stamp' = next_stamp + 1
    /\ UNCHANGED <<prog, print_steps, cut_short, reg, memory, rs, lb, func_units,
                   branch_predictor, phase, status, clock, batch, batch_squashed,
                   batch_ecall, retired, ref, ref_pcs, arch_val, dest_val,
                   fin_clock, phases_run>>

\* pop_front(): None on an empty buffer
RobPopFrontStep ==
    /\ status = "rob"
    /\ IF Len(rob.buf) = 0
       THEN /\ ev' = RobEvent("pop_front", NoneV, NoneV)
            /\ UNCHANGED <<rob, issue_log>>
       ELSE /\ rob' = pop_front(rob)[2]
            /\ issue_log' = Tail(issue_log)
            /\ ev' = RobEvent("pop_front", Head(rob.index_queue), pop_front(rob)[1].stamp)
    /\ UNCHANGED <<prog, print_steps, cut_short, reg, memory, rs, lb, func_units,
                   branch_predictor, phase, status, clock, batch, batch_squashed,
                   batch_ecall, next_stamp, retired, ref, ref_pcs, arch_val, dest_val,
                   fin_clock, phases_run>>

\* completed_entries(): the pairs it returns are left in batch
RobCompletedStep ==
    /\ status = "rob"
    /\ rob' = completed_entries(rob)[2]
    /\ batch' = completed_entries(rob)[1]
    /\ issue_log' = SubSeq(issue_log, Len(completed_entries(rob)[1]) + 1, Len(issue_log))
    /\ ev' = RobEvent("completed_entries", NoneV, NoneV)
    /\ UNCHANGED <<prog, print_steps, cut_short, reg, memory, rs, lb, func_units,
                   branch_predictor, phase, status, clock, batch_squashed,
                   batch_ecall, next_stamp, retired, ref, ref_pcs, arch_val, dest_val,
                   fin_clock, phases_run>>

\* clear()
RobClearStep ==
    /\ status = "rob"
    /\ rob' = RobClear(rob)
    /\ issue_log' = <<>>
    /\ ev' = RobEvent("clear", NoneV, NoneV)
    /\ UNCHANGED <<prog, print_steps, cut_short, reg, memory, rs, lb, func_units,
                   branch_predictor, phase, status, clock, batch, batch_squashed,
                   batch_ecall, next_stamp, retired, ref, ref_pcs, arch_val, dest_val,
                   fin_clock, phases_run>>

NextRob == RobAddStep \/ RobPopFrontStep \/ RobCompletedStep \/ RobClearStep

SpecRob == InitRob /\ [][NextRob]_vars

\* The value a load delivers, as the four bytes of the u32 (least significant
\* first), for each load function and each content of the four bytes at the
\* address: FunctionalUnits::execute_load, which LoadBuffer::execute calls,
\* and MemoryUnit::execute, which has no caller in src
LoadFunctions == {"Lb", "Lbu", "Lh", "Lhu", "Lw"}

LoadBytes == {0, 1, 127, 128, 255}

\* read::<T>(addr) as u32 for an unsigned T of n bytes
ZeroExtended(bytes, n) == [k \in 1..4 |-> IF k <= n THEN bytes[k] ELSE 0]

\* read::<T>(addr) as u32 for a signed T of n bytes
SignExtended(bytes, n) ==
    [k \in 1..4 |-> IF k <= n THEN bytes[k]
                    ELSE IF bytes[n] >= 128 THEN 255 ELSE 0]

\* FunctionalUnits::execute_load, the match on unit_entry.func
execute_load(func, bytes) ==
    CASE func \in {"Lb", "Lbu"} -> ZeroExtended(bytes, 1)
      [] func \in {"Lh", "Lhu"} -> ZeroExtended(bytes, 2)
      [] OTHER -> ZeroExtended(bytes, 4)

\* MemoryUnit::execute, the load arms
MemoryUnitExecute(func, bytes) ==
    CASE func = "Lb" -> SignExtended(bytes, 1)
      [] func = "Lbu" -> ZeroExtended(bytes, 1)
      [] func = "Lh" -> SignExtended(bytes, 2)
      [] func = "Lhu" -> ZeroExtended(bytes, 2)
      [] OTHER -> ZeroExtended(bytes, 4)

LoadEvent(kind, func, bytes, value) ==
    [kind |-> kind, func |-> func, bytes |-> bytes, value |-> value]

InitLoad == InitWith("load", LoadEvent("init", "Lw", <<0, 0, 0, 0>>, <<0, 0, 0, 0>>))

\* a load finishing in the functional unit of the load buffer
LoadByFunctionalUnits ==
    /\ status = "load"
    /\ \E func \in LoadFunctions, bytes \in [1..4 -> LoadBytes] :
          ev' = LoadEvent("execute_load", func, bytes, execute_load(func, bytes))
    /\ status' = "returned"
    /\ UNCHANGED <<prog, print_steps, cut_short, machine, phase, clock, batch,
                   batch_squashed, batch_ecall, history, fin_clock, phases_run>>

\* the same load through MemoryUnit::execute
LoadByMemoryUnit ==
    /\ status = "load"
    /\ \E func \in LoadFunctions, bytes \in [1..4 -> LoadBytes] :
          ev' = LoadEvent("memory_unit", func, bytes, MemoryUnitExecute(func, bytes))
    /\ status' = "returned"
    /\ UNCHANGED <<prog, print_steps, cut_short, machine, phase, clock, batch,
                   batch_squashed, batch_ecall, history, fin_clock, phases_run>>

NextLoad == LoadByFunctionalUnits \/ LoadByMemoryUnit

SpecLoad == InitLoad /\ [][NextLoad]_vars

\* -------------------------------------------- the memory image, on its own
\* memory/mod.rs write::<T> and read::<T> with the value kept as its bytes, so
\* that all four bytes of a u32 are told apart.
MaxMemOps == 2

MemAddrs ==
    {2, TextBase, DataBase, DataBase + 1, VEndInit - 2, VEndInit - 1, VEndInit,
     StackBase - 1, StackBase + 4, Word - 1}

MemValues == {<<255>>, <<1, 128>>, <<255, 0, 128, 7>>, <<2, 3, 5, 9>>}

\* variant: the slice starts one byte late
read_bytes_shifted(m, addr, size) ==
    SubSeq(MemBuf(m, addr) \o <<0>>, MemOffset(addr) + 2, MemOffset(addr) + size + 1)

\* read_bytes: &buf[offset..offset + size]
read_bytes(m, addr, size) ==
    SubSeq(MemBuf(m, addr), MemOffset(addr) + 1, MemOffset(addr) + size)

\* copy_from_slice of the value's bytes into buf[offset..offset + size]
CopyBytes(buf, off, bytes) ==
    [i \in 1..Len(buf) |->
        IF i > off /\ i <= off + Len(bytes) THEN bytes[i - off] ELSE buf[i]]

\* write::<T>(addr, value), after its checks
write(m, addr, bytes) ==
    IF InStack(addr)
    THEN [m EXCEPT !.stack = CopyBytes(m.stack, MemOffset(addr), bytes)]
    ELSE [m EXCEPT !.data = CopyBytes(m.data, MemOffset(addr), bytes)]

\* read::<T> dereferences the slice's pointer as *const T: defined only when
\* that pointer is aligned for T. The images are allocated aligned, so the
\* pointer is aligned when the offset is a multiple of the width.
PointerAligned(addr, size) == MemOffset(addr) % size = 0

\* the outcomes of read::<T>(addr): the bytes, or an abort (out of range; or,
\* on a misaligned pointer, whatever the build makes of it)
ReadOutcomes(m, addr, size) ==
    IF ~ReadOk(m, addr, size) THEN {"abort"}
    ELSE IF PointerAligned(addr, size) THEN {"value"}
    ELSE {"value", "abort"}

MemEvent(kind, addr, size, value, ok, before, follows) ==
    [kind |-> kind, addr |-> addr, size |-> size, value |-> value, ok |-> ok,
     before |-> before, follows |-> follows]

InitMem == InitWith("mem", MemEvent("init", 0, 0, <<>>, TRUE, MemInit, FALSE))

MemUnchanged ==
    UNCHANGED <<prog, print_steps, cut_short, reg, rob, rs, lb, func_units,
                branch_predictor, phase, batch, batch_squashed, batch_ecall,
                history, fin_clock, phases_run>>

\* one call of write::<T>: a panic of a check or of the slice ends the process
MemWriteStep ==
    /\ status = "mem"
    /\ clock < MaxMemOps
    /\ \E addr \in MemAddrs, bytes \in MemValues :
          LET ok == WriteOk(memory, addr, Len(bytes))
          IN /\ memory' = IF ok THEN write(memory, addr, bytes) ELSE memory
             /\ status' = IF ok THEN "mem" ELSE "aborted"
             /\ ev' = MemEvent("write", addr, Len(bytes), bytes, ok, memory, FALSE)
    /\ clock' = clock + 1
    /\ MemUnchanged

\* one call of read::<T>
MemReadStep ==
    /\ status = "mem"
    /\ clock < MaxMemOps
    /\ \E addr \in MemAddrs, size \in {1, 2, 4} :
       \E outcome \in ReadOutcomes(memory, addr, size) :
          LET ok == outcome = "value"
          IN /\ status' = IF ok THEN "mem" ELSE "aborted"
             /\ ev' = MemEvent("read", addr, size,
                               IF ok THEN read_bytes(memory, addr, size) ELSE <<>>,
                               ok, ev,
                               /\ ev.kind = "write"
                               /\ ev.ok
                               /\ ev.addr = addr
                               /\ ev.size = size)
    /\ clock' = clock + 1
    /\ UNCHANGED memory
    /\ MemUnchanged

NextMem == MemWriteStep \/ MemReadStep

SpecMem == InitMem /\ [][NextMem]_vars

\* ------------------------------------------------ the load buffer on its own
\* LoadBuffer driven by issue, by the progress LoadBuffer::execute makes on
\* one entry at a time (an entry that is blocked makes none), and by
\* pop_finished.
MaxLoads == 3
MaxLbSteps == 5

LoadedValues == {7, 9}

LbEvent(kind, popped, before) == [kind |-> kind, popped |-> popped, before |-> before]

InitLb == InitWith("lb", LbEvent("init", <<>>, <<>>))

LbUnchanged ==
    UNCHANGED <<prog, print_steps, cut_short, reg, memory, rob, rs, func_units,
                branch_predictor, phase, status, batch, batch_squashed, batch_ecall,
                history, fin_clock, phases_run>>

\* LoadBuffer::issue: a new entry at the back, keyed by a fresh ROB index
LbIssueStep ==
    /\ status = "lb" /\ clock < MaxLbSteps /\ Len(lb) < MaxLoads
    /\ lb' = Append(lb, [rob_index |-> clock, status |-> "Wait", func |-> "Lw",
                         base |-> Value(0), addr |-> 0, value |-> 0])
    /\ ev' = LbEvent("issue", <<>>, lb)
    /\ clock' = clock + 1
    /\ LbUnchanged

\* LoadBuffer::execute on one entry that is not blocked: Wait becomes
\* Execute, and the entry whose unit has run out becomes Finished with the
\* value read
LbExecuteStep ==
    /\ status = "lb" /\ clock < MaxLbSteps
    /\ \E k \in 1..Len(lb) :
          /\ lb[k].status # "Finished"
          /\ \/ lb[k].status = "Wait" /\ lb' = [lb EXCEPT ![k].status = "Execute"]
             \/ \E v \in LoadedValues :
                   lb' = [lb EXCEPT ![k].status = "Finished", ![k].value = v]
    /\ ev' = LbEvent("execute", <<>>, lb)
    /\ clock' = clock + 1
    /\ LbUnchanged

\* LoadBuffer::pop_finished
LbPopStep ==
    /\ status = "lb" /\ clock < MaxLbSteps
    /\ lb' = pop_finished(lb)[2]
    /\ ev' = LbEvent("pop_finished", pop_finished(lb)[1], lb)
    /\ clock' = clock + 1
    /\ LbUnchanged

NextLb == LbIssueStep \/ LbExecuteStep \/ LbPopStep

SpecLb == InitLb /\ [][NextLb]_vars

\* ------------------------------------------------------------ type check
TypeOK ==
    /\ status \in {"running", "finished", "panic"}
    /\ print_steps \in BOOLEAN
    /\ phase \in {"commit", "retire", "write_result", "execute", "issue"}
    /\ \A r \in Regs : reg.gpr[r] \in 0..(Word - 1)
    /\ reg.gpr[0] = 0
    /\ reg.pc \in 0..(Word - 1)

\* =============================================================== claims
\* the entry retired by the last step, when the last step was a retire
Retiring == ev.kind = "retire"

\* C1: the PCs of the retired entries, in retire order, are the PCs the
\* in-order interpreter executes, one for one.
C1_RetiredPcsFollowReference ==
    \A k \in 1..Len(retired) : retired[k].pc = ref_pcs[k]

\* the exit syscall has just retired
ExitRetired ==
    /\ Retiring /\ ev.e.inst.f = "Ecall"
    /\ reg.gpr[SYSCALL_NUM_REG] \in {93, 94}

\* C2: when the exit syscall has retired, the registers and the data and
\* stack images are those the in-order interpreter ends with.
C2_FinalStateMatchesReference ==
    ExitRetired =>
        /\ RefFinal(prog).halted
        /\ reg.gpr = RefFinal(prog).gpr
        /\ memory.data = RefFinal(prog).mem.data
        /\ memory.stack = RefFinal(prog).mem.stack

\* e is a Store or non-Lrw atomic whose address is unresolved or equals a
InFlightStoreConflict(e, a) ==
    /\ e.inst.op = "Store" \/ (e.inst.op = "Amo" /\ e.inst.f # "Lrw")
    /\ ~IsValue(e.addr) \/ e.addr.v = a

\* C3: a load that read address a in the last execute phase had no older
\* Store or non-Lrw atomic in the ROB with an unresolved address or with
\* address a.
C3_LoadReadsBehindNoOlderStore ==
    ev.kind = "execute" =>
        \A rd \in ev.reads :
            \A k \in 1..(to_relative_pos(rob, rd.rob_index) - 1) :
                ~InFlightStoreConflict(RobSeq(rob)[k].e, rd.addr)

CycleBoundary == phase = "commit" /\ status = "running"

\* C5 as stated: at a cycle boundary a register with no rename pointer holds
\* the value of the most recent retired instruction whose rd is that
\* register (its initial value if there is none).
C5_GprIsLastRetiredDestinationValue ==
    CycleBoundary =>
        \A r \in Regs : reg.related_rob[r] = NoneV => reg.gpr[r] = dest_val[r]

\* C5, amended: at a cycle boundary a register r # 0 with no rename pointer
\* holds the value last written to it at retire, by a register write-back or
\* by a syscall return into a0 (its initial value if there is none); x0 is 0.
C5_GprIsLastRetiredWrite ==
    CycleBoundary =>
        \A r \in Regs : reg.related_rob[r] = NoneV => reg.gpr[r] = arch_val[r]

\* C5 witness: a cycle boundary at which a register without rename pointer
\* holds a value a retired instruction wrote.
C5_Witness ==
    /\ CycleBoundary
    /\ \E r \in Regs \ {0} :
        /\ reg.related_rob[r] = NoneV
        /\ arch_val[r] # RegInit(TextBase, StackPointerInit).gpr[r]
        /\ reg.gpr[r] = arch_val[r]

\* the in-flight entries (index, entry) that write register r
InFlightWriters(r) ==
    {k \in 1..Len(rob.index_queue) :
        RobSeq(rob)[k].e.inst.rd = r /\ RobSeq(rob)[k].e.rd = r}

\* C6: outside commit, a rename pointer related_rob[r] = i names an entry of
\* the ROB whose rd is r and which is the youngest in-flight writer of r.
C6_RenamePointsAtYoungestWriter ==
    phase # "retire" =>
        \A r \in Regs :
            reg.related_rob[r] # NoneV =>
                /\ RobHas(rob, reg.related_rob[r])
                /\ RobGet(rob, reg.related_rob[r]).rd = r
                /\ InFlightWriters(r) # {}
                /\ \A k \in InFlightWriters(r) :
                      k <= to_relative_pos(rob, reg.related_rob[r])

\* C7: right after the squash of a mispredicted branch the reservation
\* station, the load buffer, the address unit and the ROB are empty and no
\* register has a rename pointer.
C7_SquashEmptiesEverything ==
    (Retiring /\ ev.squash) =>
        /\ DOMAIN rs.station = {}
        /\ lb = <<>>
        /\ DOMAIN rs.address_unit = {}
        /\ rob = RobEmpty
        /\ \A r \in Regs : reg.related_rob[r] = NoneV

\* C8: an entry retired after a mispredicted branch of the same commit batch
\* writes no register, writes no memory and services no syscall.
C8_NoEffectAfterMispredictInBatch ==
    (Retiring /\ ev.after_squash) =>
        ~(ev.gpr_write \/ ev.mem_write \/ ev.syscall)

\* the pc a retiring branch leaves behind when it squashes
CorrectedPc(e) ==
    IF e.reg_value # 0 THEN (e.pc + e.inst.imm) % Word ELSE (e.pc + 4) % Word

\* C9: when a branch retires, the buffers are squashed and pc is redirected
\* exactly when its resolved direction differs from the prediction recorded
\* at issue; the redirected pc is pc + imm for a taken branch and pc + 4 for
\* a branch not taken; otherwise buffers and pc are left alone.
C9_SquashIffMispredicted ==
    [][(phase = "retire" /\ batch # <<>> /\ Head(batch).e.inst.op = "Branch"
        /\ status' = "running") =>
         LET e == Head(batch).e
         IN IF (e.reg_value = 1) # e.branch_pred
            THEN /\ rob' = RobEmpty /\ lb' = <<>> /\ DOMAIN rs'.station = {}
                 /\ reg'.pc = CorrectedPc(e)
            ELSE /\ rob' = rob /\ lb' = lb /\ rs' = rs
                 /\ reg'.pc = reg.pc]_vars

\* C9 witness: a branch predicted taken has retired not taken; the squash
\* left pc at the instruction behind the branch.
C9_Witness ==
    /\ Retiring /\ ev.squash
    /\ ev.e.branch_pred /\ ev.e.reg_value = 0
    /\ reg.pc = ev.e.pc + 4

\* the registers a step changed
Changed == {r \in Regs : reg'.gpr[r] # reg.gpr[r]}

\* C10: a gpr changes only when commit retires an entry: the entry's rd
\* receives its reg_value, or a0 receives the return value of the Ecall;
\* write-result, execute and issue change none; entries retire in the order
\* they were issued.
C10_GprWrittenOnlyAtRetireInOrder ==
    [][/\ Changed # {} =>
            /\ phase = "retire" /\ batch # <<>>
            /\ LET e == Head(batch).e
               IN IF e.inst.f = "Ecall" THEN Changed = {SYSCALL_RET_REG}
                  ELSE /\ Changed = {e.rd}
                       /\ reg'.gpr[e.rd] = e.reg_value
       /\ (retired' # retired /\ retired # <<>>) =>
            retired'[Len(retired')].stamp > retired[Len(retired)].stamp]_vars

\* C10 witness: a retiring entry, not the first, has just changed its rd.
C10_Witness ==
    /\ Retiring /\ ev.gpr_write
    /\ Len(retired) > 1
    /\ reg.gpr[ev.e.rd] = ev.e.reg_value

\* C11: a load whose memory read faults in the execute phase does not stop
\* the run there: the run goes on and the fault is kept in the mem_exception
\* of the load's ROB entry, to be reported when that entry retires.
C11_LoadFaultIsDeferredToRetire ==
    (ev.kind = "execute" /\ ev.faults # {}) =>
        /\ status = "running"
        /\ \A i \in ev.faults :
              RobHas(rob, i) /\ RobGet(rob, i).mem_exception # "Ok"

\* the youngest entry of the ROB
Youngest == RobGet(rob, rob.index_queue[Len(rob.index_queue)])

\* the youngest entry is an Ecall, or a Jalr that is not completed
YoungestHoldsIssue ==
    /\ rob.index_queue # <<>>
    /\ \/ Youngest.inst.f = "Ecall"
       \/ /\ Youngest.inst.f = "Jalr"
          /\ ~(IsValue(Youngest.addr) /\ Youngest.reg_value # NoneV)

\* C12: an issue phase entered with an Ecall, or a Jalr that is not yet
\* completed, as the youngest ROB entry allocates no ROB entry and leaves pc
\* unchanged.
C12_StalledIssueAllocatesNothing ==
    [][(phase = "issue" /\ YoungestHoldsIssue) =>
          /\ rob' = rob
          /\ reg'.pc = reg.pc
          /\ next_stamp' = next_stamp]_vars

\* C12 witness: an issue phase has just been held back by a Jalr whose
\* target address is not resolved yet.
C12_Witness ==
    /\ ev.kind = "issue" /\ ev.stalled /\ ev.n = 0
    /\ Youngest.inst.f = "Jalr" /\ ~IsValue(Youngest.addr)

\* C13: an issue phase allocates at most two ROB entries, and a Jal, Jalr or
\* Ecall it allocates is the youngest entry of the ROB when the phase ends.
C13_NothingIssuedBehindJumpOrEcall ==
    (ev.kind = "issue" /\ status = "running") =>
        /\ ev.n <= 2
        /\ \A k \in (Len(rob.index_queue) - ev.n + 1)..Len(rob.index_queue) :
              (RobSeq(rob)[k].e.inst.op \in {"Jal", "Jalr"}
               \/ RobSeq(rob)[k].e.inst.f = "Ecall")
                  => k = Len(rob.index_queue)

\* the four phases of a cycle, in order
FourPhases == <<"commit", "write_result", "execute", "issue">>

\* a run_clock call has returned: from its issue phase, or early from commit
CycleOver == status # "panic" /\ phase = "commit" /\ phases_run # <<>>

\* the last run_clock call returned right after commit, finding the program
\* finished
ReturnedFinished == ev.kind = "commit_end" /\ ev.finished

IssuedAs(k) == issue_log[retired[k].stamp + 1]

\* the first two parts of C15: a station result is broadcast in the
\* write-result phase of the cycle after the one that produced it, and an
\* entry starts executing only in a cycle after those that produced the
\* results it waited for
BroadcastOneCycleLater ==
    /\ ev.kind = "write_result" =>
          \A job \in ev.generals :
              /\ job.rob_idx \in DOMAIN fin_clock
              /\ fin_clock[job.rob_idx] = clock - 1
    /\ (ev.kind = "execute" /\ status = "running") =>
          \A s \in ev.started : \A j \in s.waits :
              j \in DOMAIN fin_clock /\ fin_clock[j] < clock

BroadcastNextWriteResult ==
    /\ ev.kind = "write_result" =>
          \A job \in ev.generals :
              /\ job.rob_idx \in DOMAIN fin_clock
              /\ fin_clock[job.rob_idx] < clock
              /\ \A c \in (fin_clock[job.rob_idx] + 1)..(clock - 1) : c \in cut_short
    /\ (ev.kind = "execute" /\ status = "running") =>
          \A s \in ev.started : \A j \in s.waits :
              j \in DOMAIN fin_clock /\ fin_clock[j] < clock

C16_RegisterZeroIsZero ==
    /\ reg.gpr[0] = 0
    /\ reg.related_rob[0] = NoneV
    /\ get_reg_value(reg, 0, rob) = Value(0)

\* C16 witness: an instruction whose rd is x0 has just retired with a
\* non-zero result, and register 0 is still 0.
C16_Witness ==
    /\ Retiring /\ ev.ok
    /\ ev.e.inst.rd = 0 /\ ev.e.reg_value \notin {0, NoneV}
    /\ reg.gpr[0] = 0 /\ reg.related_rob[0] = NoneV

\* the update table of the claim: the state that follows (p, last) on an
\* outcome
TableStep(s, taken) ==
    CASE taken /\ s[2] -> <<TRUE, TRUE>>
      [] taken /\ ~s[2] -> <<s[1], TRUE>>
      [] ~taken /\ s[2] -> <<s[1], FALSE>>
      [] OTHER -> <<FALSE, FALSE>>

\* the state the table reaches from the unseen state on a sequence of outcomes
RECURSIVE TableRun(_)
TableRun(outs) ==
    IF outs = <<>> THEN <<FALSE, FALSE>>
    ELSE TableStep(TableRun(SubSeq(outs, 1, Len(outs) - 1)), outs[Len(outs)] = 1)

\* C17: for every pc the predictor entry is the state the four-case table
\* reaches from (false, false) on the outcomes given so far, predict(pc)
\* returns its first component, and an update changes predict(pc) only when
\* it is the second of two consecutive outcomes opposite to the prediction.
C17_PredictorFollowsTable ==
    /\ \A pc \in DOMAIN branch_predictor :
          /\ branch_predictor[pc] = TableRun(ev.outcomes[pc])
          /\ predict(branch_predictor, pc) = TableRun(ev.outcomes[pc])[1]
    /\ (ev.kind = "update" /\ predict(branch_predictor, ev.pc) # ev.before[1]) =>
          LET outs == ev.outcomes[ev.pc]
              n == Len(outs)
              opposite == IF ev.before[1] THEN 0 ELSE 1
          IN n >= 2 /\ outs[n] = opposite /\ outs[n - 1] = opposite

\* C17 witness: a second consecutive taken outcome has just switched the
\* prediction of a pc to taken.
C17_Witness ==
    /\ ev.kind = "update" /\ ~ev.before[1]
    /\ predict(branch_predictor, ev.pc)
    /\ Len(ev.outcomes[ev.pc]) >= 2

\* C18: the simulation stops exactly when commit retires an Ecall whose a7 is
\* 93 or 94: it stops for no other reason, nothing is retired after such an
\* Ecall, and once one has retired no further phase runs (the run is over, or
\* the commit phase that retired it is still completing, or the retirement
\* itself was fatal).
RetiredExits == {i \in 1..Len(retired) : retired[i].exit}

C18_StopsExactlyAtExit ==
    /\ status = "finished" => RetiredExits # {}
    /\ \A i \in RetiredExits :
          /\ i = Len(retired)
          /\ \/ status \in {"finished", "panic"}
             \/ status = "running" /\ phase = "retire"

\* an atomic other than Lrw / Scw
IsAmoRmw(inst) == inst.op = "Amo" /\ inst.f \notin {"Lrw", "Scw"}

\* the last issue phase panicked on an atomic read-modify-write
AmoIssueFatal ==
    /\ status = "panic" /\ ev.kind = "issue"
    /\ \E i \in ev.failed : IsAmoRmw(i)

\* C19: an atomic other than Lrw / Scw on address a, with old memory word m
\* and rs2 value v, goes through the pipeline and retires, and then
\* gpr[rd] = m and M[a] = op(m, v), op being the operation of its mnemonic.
\* m, a and v are those of the in-order execution up to this instruction.
C19_AmoReadsOldWritesResult ==
    [][/\ ~AmoIssueFatal'
       /\ (/\ phase = "retire" /\ batch # <<>>
           /\ IsAmoRmw(Head(batch).e.inst)
           /\ RefRunning(ref) /\ ref.pc = Head(batch).e.pc) =>
             LET i == Head(batch).e.inst
                 a == ref.gpr[i.rs1]
                 m == MemRead(ref.mem, a, WORD_SIZE)
                 v == ref.gpr[i.rs2]
             IN /\ status' = "running"
                /\ reg'.gpr[i.rd] = (IF i.rd = 0 THEN 0 ELSE m)
                /\ MemRead(memory', a, WORD_SIZE) = amo_mem_val(i.f, m, v)]_vars

\* the programs that run the loop `addi x1,x0,3; L: addi x1,x1,-1;
\* bnez x1,L; ecall` with a7 = 93, and the places of its branch and ecall
LoopPrograms == {18, 19}
LoopBranchPc == At(IF prog = 18 THEN 3 ELSE 4)
LoopEcallPc == LoopBranchPc + WORD_SIZE

\* the retirements of the backward branch, and the rank of one among them
BranchRetirements == {i \in 1..Len(retired) : retired[i].pc = LoopBranchPc}
BranchRank(i) == Cardinality({j \in BranchRetirements : j <= i})

\* C20: in the loop program the predictor entry of the branch predicts taken
\* once the backward branch has retired twice, the only retirement of the
\* branch that squashes is the third, the final fall-through, and nothing
\* retires after the ecall, which is the last instruction retired when the
\* run is over.
C20_LoopMispredictsOnlyOnExit ==
    prog \in LoopPrograms =>
        /\ Cardinality(BranchRetirements) >= 2 =>
              predict(branch_predictor, LoopBranchPc)
        /\ \A i \in BranchRetirements : retired[i].squash => BranchRank(i) = 3
        /\ \A i \in 1..Len(retired) :
              retired[i].pc = LoopEcallPc => i = Len(retired)
        /\ status # "running" =>
              /\ retired # <<>>
              /\ retired[Len(retired)].pc = LoopEcallPc

\* the RV32IM result of function f on words a and b
Rv32imResult(f, a, b) ==
    CASE f \in {"Add", "Addi"} -> (a + b) % Word
      [] f = "Sub" -> (a - b) % Word
      [] f \in {"Slt", "Slti"} -> IF AsSigned(a) < AsSigned(b) THEN 1 ELSE 0
      [] f \in {"Sltu", "Sltiu"} -> IF a < b THEN 1 ELSE 0
      [] f \in {"And", "Andi"} ->
           Bitwise("and", a, b, WordBits)
      [] f \in {"Or", "Ori"} -> Bitwise("or", a, b, WordBits)
      [] f \in {"Xor", "Xori"} -> Bitwise("xor", a, b, WordBits)
      [] f = "Sll" -> (a * (2 ^ (b % WordBits) % Word)) % Word
      [] f = "Srl" -> a \div (2 ^ (b % WordBits))
      [] f = "Sra" -> (AsSigned(a) \div (2 ^ (b % WordBits))) % Word
      [] f = "Mul" -> MulLow(a, b)
      [] f = "Mulh" -> ((AsSigned(a) * AsSigned(b)) \div Word) % Word
      [] f = "Mulhsu" -> ((AsSigned(a) * b) \div Word) % Word
      [] f = "Mulhu" -> MulHighU(a, b)
      [] f = "Div" -> IF b = 0 THEN Word - 1
                      ELSE IF a = IntMin /\ b = Word - 1 THEN IntMin
                      ELSE TruncDiv(AsSigned(a), AsSigned(b)) % Word
      [] f = "Divu" -> IF b = 0 THEN Word - 1 ELSE a \div b
      [] f = "Rem" -> IF b = 0 THEN a
                      ELSE TruncRem(AsSigned(a), AsSigned(b)) % Word
      [] OTHER -> IF b = 0 THEN a ELSE a % b

\* C21: every call of alu with an RV32IM arithmetic function returns, without
\* aborting, the RV32IM result for its two input words (wrapping add/sub,
\* signed and unsigned comparisons, shifts by the low bits of the amount, high
\* product words, division and remainder including divisor 0 and the smallest
\* integer divided by -1).
C21_AluMatchesRv32im ==
    ev.kind = "alu" =>
        /\ ~ev.aborted
        /\ ev.value = Rv32imResult(ev.f, ev.a, ev.b)

\* C22: for all input words a and b, Mul returns the low word of a * b.
C22_MulIsLowWordOfProduct ==
    (ev.kind = "alu" /\ ev.f = "Mul") =>
        ~ev.aborted /\ ev.value = MulLow(ev.a, ev.b)

\* C23: completed_entries, called at the start of commit, removes and returns
\* in issue order exactly the longest prefix of the ROB whose entries are all
\* completed: the first entry left, if any, is not completed, and the entries
\* left keep their indices, contents and order.
C23_CompletedPrefixLeavesInOrder ==
    [][(phase = "commit" /\ phase' = "retire") =>
          LET seq == RobSeq(rob)
              n == Len(batch')
          IN /\ n <= Len(seq)
             /\ batch' = SubSeq(seq, 1, n)
             /\ \A k \in 1..n : is_completed(seq[k].e)
             /\ n < Len(seq) => ~is_completed(seq[n + 1].e)
             /\ RobSeq(rob') = SubSeq(seq, n + 1, Len(seq))
             /\ \A k \in (n + 1)..Len(seq) :
                   RobHas(rob', seq[k].idx) /\ RobGet(rob', seq[k].idx) = seq[k].e]_vars

\* C23 witness: completed_entries has just returned a non-empty batch and
\* left an incomplete head with a completed entry behind it.
C23_Witness ==
    /\ ev.kind = "commit" /\ batch # <<>>
    /\ Len(rob.index_queue) >= 2
    /\ ~is_completed(RobSeq(rob)[1].e)
    /\ \E k \in 2..Len(rob.index_queue) : is_completed(RobSeq(rob)[k].e)

\* an operand that holds a value
Resolved(op) == op.t = "Value"

\* C24: is_completed holds exactly when: for a Store, addr and mem_value are
\* resolved and mem_rem_cycle is 0; for an AMO, addr, mem_value and reg_value
\* are resolved and mem_rem_cycle is 0; for a JALR, addr and reg_value are
\* resolved; for every other instruction, reg_value is set.
C24_IsCompletedTable ==
    ev.kind = "is_completed" =>
        LET e == ev.e
            op == e.inst.op
        IN ev.result <=>
             \/ /\ op = "Store"
                /\ Resolved(e.addr) /\ Resolved(e.mem_value) /\ e.mem_rem_cycle = 0
             \/ /\ op = "Amo"
                /\ Resolved(e.addr) /\ Resolved(e.mem_value) /\ e.reg_value # NoneV
                /\ e.mem_rem_cycle = 0
             \/ /\ op = "Jalr"
                /\ Resolved(e.addr) /\ e.reg_value # NoneV
             \/ /\ op \notin {"Store", "Amo", "Jalr"}
                /\ e.reg_value # NoneV

\* C24 witness: is_completed has refused an AMO whose reg_value is set and
\* whose operands are resolved, because its mem_rem_cycle is not 0.
C24_Witness ==
    /\ ev.kind = "is_completed" /\ ~ev.result
    /\ ev.e.inst.op = "Amo" /\ ev.e.reg_value # NoneV
    /\ Resolved(ev.e.addr) /\ Resolved(ev.e.mem_value) /\ ev.e.mem_rem_cycle # 0

\* C25: a station entry with both operands resolved is Finished after exactly
\* L execute phases (4 for the multiplies, 8 for the divisions and
\* remainders, 1 otherwise); an entry with an unresolved operand keeps its
\* status and remaining_clock
C25_Latency(f) ==
    IF f \in {"Mul", "Mulh", "Mulhsu", "Mulhu"} THEN 4
    ELSE IF f \in {"Div", "Divu", "Rem", "Remu"} THEN 8
    ELSE 1

C25_FinishedAfterLatency ==
    ev.kind = "execute" =>
        /\ ~OperandsReady(ev.before) =>
              /\ ev.after.status = ev.before.status
              /\ ev.after.remaining_clock = ev.before.remaining_clock
        /\ (ev.after.status = "Finished") <=> (ev.ran = C25_Latency(ev.before.inst.f))

\* the same, for the executes that return
C25_FinishedAfterLatencyUnlessAborted ==
    (ev.kind = "execute" /\ ~ev.aborted) =>
        /\ ~OperandsReady(ev.before) =>
              /\ ev.after.status = ev.before.status
              /\ ev.after.remaining_clock = ev.before.remaining_clock
        /\ (ev.after.status = "Finished") <=> (ev.ran = C25_Latency(ev.before.inst.f))

\* C26: the resolved addr of a Load, Store or Jalr ROB entry is the in-order
\* value of rs1 plus imm; while the address unit still holds the entry its
\* addr is not resolved, and a completed store has a resolved addr
C26_InFlight == batch \o RobSeq(rob)

\* the in-order state after the n oldest in-flight entries, as long as they
\* are the instructions the in-order execution runs next
RECURSIVE C26_RefAfter(_, _, _)
C26_RefAfter(r, seq, n) ==
    IF n = 0 THEN r
    ELSE LET p == C26_RefAfter(r, seq, n - 1)
         IN IF RefRunning(p) /\ p.pc = seq[n].e.pc THEN RefStep(p, prog)
            ELSE [p EXCEPT !.ok = FALSE]

C26_OnPath(k) ==
    LET r == C26_RefAfter(ref, C26_InFlight, k - 1)
    IN RefRunning(r) /\ r.pc = C26_InFlight[k].e.pc

C26_Expected(k) ==
    LET r == C26_RefAfter(ref, C26_InFlight, k - 1)
        e == C26_InFlight[k].e
    IN wrapping_add(r.gpr[e.inst.rs1], e.inst.imm)

C27_ValueSetAtIssue ==
    \A k \in 1..Len(RobSeq(rob)) :
        LET e == RobSeq(rob)[k].e
        IN /\ (e.inst.op \in {"Lui", "AuiPc", "Jal"} \/ e.inst.f = "Scw")
                 => e.reg_value # NoneV
           /\ e.inst.op \in {"Jal", "Jalr"}
                 => e.reg_value = wrapping_add(e.pc, WORD_SIZE)

\* C28: a retiring entry with a destination and a set reg_value writes
\* gpr[rd] (x0 stays 0), clears related_rob[rd] exactly when it still names
\* the retiring entry, and leaves every other register and rename pointer
C28_WritesBack(e) ==
    /\ e.inst.op # "Branch" /\ e.inst.f # "Ecall"
    /\ e.mem_exception = "Ok"
    /\ e.reg_value # NoneV

C28_RetireWritesAndReleasesName ==
    [][(/\ status = "running" /\ phase = "retire" /\ batch # <<>>
        /\ C28_WritesBack(Head(batch).e))
       => LET e == Head(batch).e
              idx == Head(batch).idx
          IN /\ reg'.gpr[e.rd] = IF e.rd = 0 THEN 0 ELSE e.reg_value
             /\ reg'.related_rob[e.rd] =
                    IF reg.related_rob[e.rd] = idx THEN NoneV
                    ELSE reg.related_rob[e.rd]
             /\ \A r \in Regs \ {e.rd} :
                    /\ reg'.gpr[r] = reg.gpr[r]
                    /\ reg'.related_rob[r] = reg.related_rob[r]]_vars

\* a retire that wrote rd while a younger in-flight writer still owns the name
C28_Witness ==
    /\ ev.kind = "retire" /\ ev.ok
    /\ C28_WritesBack(ev.e)
    /\ ev.e.rd # 0
    /\ reg.gpr[ev.e.rd] = ev.e.reg_value
    /\ reg.related_rob[ev.e.rd] \notin {NoneV, ev.idx}
    /\ RobHas(rob, reg.related_rob[ev.e.rd])
    /\ RobGet(rob, reg.related_rob[ev.e.rd]).rd = ev.e.rd

\* C29: at every phase boundary an operand held in the station, the address
\* unit, the load buffer or the addr / mem_value of a ROB entry is Rob(i) only
\* if ROB entry i exists and has no reg_value yet
C29_Operands ==
    UNION {{rs.station[i].operand[1], rs.station[i].operand[2]} : i \in DOMAIN rs.station}
    \cup {rs.address_unit[i].operand[1] : i \in DOMAIN rs.address_unit}
    \cup {lb[k].base : k \in 1..Len(lb)}
    \cup UNION {{rob.buf[k].e.addr, rob.buf[k].e.mem_value} : k \in 1..Len(rob.buf)}

C29_Pending(i) == RobHas(rob, i) /\ RobGet(rob, i).reg_value = NoneV

C29_RobOperandsNamePendingEntries ==
    (status = "running" /\ phase # "retire") =>
        \A op \in C29_Operands : op.t = "Rob" => C29_Pending(op.v)

\* C30: after any sequence of add, pop_front, completed_entries and clear,
\* index_queue lists exactly the live indices, without duplicates and in
\* issue order; index_map sends each live index to the position of buf that
\* holds its (index, entry) pair; no live index is in the free list; get(i)
\* returns the entry issued under i
C30_Live == {issue_log[k].idx : k \in 1..Len(issue_log)}

C30_RobBookkeeping ==
    /\ rob.index_queue = [k \in 1..Len(issue_log) |-> issue_log[k].idx]
    /\ \A j, k \in 1..Len(rob.index_queue) :
          rob.index_queue[j] = rob.index_queue[k] => j = k
    /\ DOMAIN rob.index_map = C30_Live
    /\ Len(rob.buf) = Len(issue_log)
    /\ \A k \in 1..Len(issue_log) :
          LET i == issue_log[k].idx
          IN /\ rob.index_map[i] \in 1..Len(rob.buf)
             /\ rob.buf[rob.index_map[i]].idx = i
             /\ rob.buf[rob.index_map[i]].e.stamp = issue_log[k].stamp
             /\ RobHas(rob, i)
             /\ RobGet(rob, i).stamp = issue_log[k].stamp
    /\ \A k \in 1..Len(rob.unused_indies) : rob.unused_indies[k] \notin C30_Live
    /\ \A i \in 0..MaxRobLen : i \notin C30_Live => ~RobHas(rob, i)

\* a pop_front whose swap_remove moved a younger entry, with a freed index
\* handed out again: buf is no longer in issue order
C30_Witness ==
    /\ Len(rob.index_queue) = MaxRobLen
    /\ rob.buf[1].idx # rob.index_queue[1]
    /\ ev.kind = "add"
    /\ ev.idx < rob.index_queue[1]

\* C31: a completed load delivers the memory contents at its address,
\* sign-extended to 32 bits for Lb and Lh, zero-extended for Lbu and Lhu, the
\* full word for Lw
C31_Width(func) ==
    IF func \in {"Lb", "Lbu"} THEN 1 ELSE IF func \in {"Lh", "Lhu"} THEN 2 ELSE 4

C31_Delivered(func, bytes) ==
    [k \in 1..4 |->
        IF k <= C31_Width(func) THEN bytes[k]
        ELSE IF func \in {"Lb", "Lh"} /\ bytes[C31_Width(func)] >= 128 THEN 255
        ELSE 0]

C31_LoadExtendsPerMnemonic ==
    ev.kind \in {"execute_load", "memory_unit"} =>
        ev.value = C31_Delivered(ev.func, ev.bytes)

\* the same for MemoryUnit::execute alone
C31_MemoryUnitExtendsPerMnemonic ==
    ev.kind = "memory_unit" => ev.value = C31_Delivered(ev.func, ev.bytes)

\* C32: brk(new) with new at or beyond the end of the data region makes every
\* address from the region's start through new readable, keeps every data
\* byte that existed, and returns new; with new below the end it changes
\* nothing and returns new
C32_BrkRetires ==
    /\ status = "running" /\ phase = "retire" /\ batch # <<>>
    /\ Head(batch).e.inst.f = "Ecall"
    /\ Head(batch).e.mem_exception = "Ok"
    /\ reg.gpr[SYSCALL_NUM_REG] = 214

C32_BrkExtendsDataRegion ==
    [][C32_BrkRetires =>
         LET new == reg.gpr[SYSCALL_ARG1_REG]
         IN /\ status' = "running"
            /\ reg'.gpr[SYSCALL_RET_REG] = new
            /\ IF memory.v1 <= new
               THEN /\ \A a \in v_address_range0..new : ReadOk(memory', a, 1)
                    /\ \A i \in 1..Len(memory.data) :
                          /\ i <= Len(memory'.data)
                          /\ memory'.data[i] = memory.data[i]
               ELSE memory' = memory]_vars

\* the address lies in the writable part of the data region, or in the stack
C33_Writable(m, addr) ==
    \/ InStack(addr)
    \/ addr >= v_address_range0 /\ addr < m.v1 /\ check_write_address_space(addr)

\* the whole access addr .. addr + size - 1 lies inside the image it starts in
C33_Fits(m, addr, size) == MemOffset(addr) + size <= Len(MemBuf(m, addr))

\* a write went to the stack image exactly when addr >= stack_range.0
C33_Routed ==
    IF InStack(ev.addr) THEN memory.data = ev.before.data
    ELSE memory.stack = ev.before.stack

C34_Unmapped(m, addr) ==
    addr < v_address_range0 \/ (addr >= m.v1 /\ addr < stack_range0)

C34_ReadOnly(addr) == read_only_range[1] <= addr /\ addr < read_only_range[2]

C35_InRob(rb) == {rb.buf[k].e.stamp : k \in 1..Len(rb.buf)}

\* a step that takes an entry out of the ROB
C35_Leaves == C35_InRob(rob) \ C35_InRob(rob') # {}

\* C35: while run_clock keeps being called and nothing fatal has happened,
\* every entry that is in the ROB is eventually out of it again (retired at
\* the head or discarded by a squash). The ROB is a queue, so this is: the
\* ROB is empty again and again, or entries leave it again and again.
C35_EveryEntryLeaves ==
    \/ []<>(status # "running" \/ Len(rob.buf) = 0)
    \/ []<><<C35_Leaves>>_vars

\* the same for every program but the one that reads a register whose rename
\* was left behind by a squash
C35_LiveWithoutStaleRename == prog = 21 \/ C35_EveryEntryLeaves

\* program 21 once the add at the target of its branch has been issued: no
\* phase changes any part of the machine any more
C35_NothingMoves ==
    [][(prog = 21 /\ clock >= 8 /\ clock < MaxClock) => machine' = machine]_vars

\* the entry issued directly after the entry b, when it is in the ROB
C36_Followers(b) ==
    {rob.buf[j].e : j \in {i \in 1..Len(rob.buf) : rob.buf[i].e.stamp = b.stamp + 1}}

C36_Branches ==
    {rob.buf[k].e : k \in {i \in 1..Len(rob.buf) : rob.buf[i].e.inst.op = "Branch"}}

\* C36: for every branch in the ROB the instruction fetched after it is the
\* one at pc + imm when branch_pred is taken, and the one at pc + 4 when it is
\* not taken.
C36_FetchFollowsPrediction ==
    \A b \in C36_Branches : \A n \in C36_Followers(b) :
        n.pc = IF b.branch_pred THEN wrapping_add(b.pc, b.inst.imm)
               ELSE wrapping_add(b.pc, WORD_SIZE)

\* the consequence the claim draws: behind a branch whose result equals
\* branch_pred the ROB holds the instruction of the resolved direction
C36_RightPredictionHasRightPath ==
    \A b \in C36_Branches : \A n \in C36_Followers(b) :
        b.reg_value = BoolWord(b.branch_pred) =>
            n.pc = IF b.reg_value = 1 THEN wrapping_add(b.pc, b.inst.imm)
                   ELSE wrapping_add(b.pc, WORD_SIZE)

C37_IsStore(e) == e.inst.op \in {"Store", "Amo"}

\* execute_store has written the entry's value: it leaves mem_rem_cycle = 0
C37_HasWritten(e) == C37_IsStore(e) /\ e.mem_rem_cycle = 0

\* the entries a squash discards or overtakes: what is left in the ROB and
\* the rest of the batch behind the branch
C37_BehindBranch ==
    {rob.buf[k].e : k \in 1..Len(rob.buf)} \cup {batch[k].e : k \in 2..Len(batch)}

C38_Keyed ==
    DOMAIN rs.station \cup DOMAIN rs.address_unit
    \cup {lb[k].rob_index : k \in 1..Len(lb)}

\* the ROB indices some operand waits for
C38_Named == {op.v : op \in {o \in C29_Operands : o.t = "Rob"}}

\* the ROB indices the rename pointers hold
C38_Renamed == {reg.related_rob[r] : r \in Regs} \ {NoneV}

\* the indices register_new_index returns in this step
C38_HandedOut ==
    IF phase = "issue" /\ ev'.kind = "issue" THEN IssuedIndices(rob', ev'.n) ELSE {}

\* C38: an index handed out by register_new_index keys no entry of the
\* station, the address unit or the load buffer, is named by no operand and
\* is held by no rename pointer at the time it is handed out.
C38_FreshIndexIsUnused ==
    [][\A i \in C38_HandedOut : i \notin C38_Keyed \cup C38_Named \cup C38_Renamed]_vars

\* the three parts of C38 one by one
C38_FreshIndexKeysNothing == [][\A i \in C38_HandedOut : i \notin C38_Keyed]_vars

C38_FreshIndexIsNotNamed == [][\A i \in C38_HandedOut : i \notin C38_Named]_vars

C38_FreshIndexIsNotRenamed == [][\A i \in C38_HandedOut : i \notin C38_Renamed]_vars

\* the byte ranges a .. a + n - 1 and b .. b + m - 1 share a byte
C39_Overlap(a, n, b, m) == a < b + m /\ b < a + n

\* the entries older than the load rd that are stores (of the opcodes ops)
\* with a known address and have not written yet
C39_PendingStores(rb, rd, ops) ==
    {RobSeq(rb)[k].e : k \in {j \in 1..(to_relative_pos(rb, rd.rob_index) - 1) :
        /\ RobSeq(rb)[j].e.inst.op \in ops
        /\ RobSeq(rb)[j].e.mem_rem_cycle # 0
        /\ IsValue(RobSeq(rb)[j].e.addr)}}

C39_LoadBytes(rb, rd) == LoadSize(RobGet(rb, rd.rob_index).inst.f)

\* C39: a load that reads memory in the execute phase reads no byte of the
\* range an older Store or AMO, still in the ROB and not yet written, is
\* going to write.
C39_LoadReadsNoPendingStoreByte ==
    [][(phase = "execute" /\ ev'.kind = "execute") =>
        \A rd \in ev'.reads : \A s \in C39_PendingStores(rob', rd, {"Store", "Amo"}) :
            ~C39_Overlap(rd.addr, C39_LoadBytes(rob', rd), s.addr.v, StoreSize(s.inst.f))]_vars

\* what the check of LoadBuffer::execute does give: no read at the start
\* address of an older pending Store
C39_LoadReadsNoPendingStoreStart ==
    [][(phase = "execute" /\ ev'.kind = "execute") =>
        \A rd \in ev'.reads : \A s \in C39_PendingStores(rob', rd, {"Store"}) :
            rd.addr # s.addr.v]_vars

\* the case of the claim: a Store and a load with different start addresses
C39_LoadReadsNoByteInsidePendingStore ==
    [][(phase = "execute" /\ ev'.kind = "execute") =>
        \A rd \in ev'.reads : \A s \in C39_PendingStores(rob', rd, {"Store"}) :
            rd.addr # s.addr.v =>
                ~C39_Overlap(rd.addr, C39_LoadBytes(rob', rd), s.addr.v,
                             StoreSize(s.inst.f))]_vars

C40_Finished(e) == e.status = "Finished"

C40_Unfinished(e) == e.status # "Finished"

\* C40: pop_finished returns the entries of the buffer that are Finished, each
\* once, as they were (ROB index and value), in buffer order, and the buffer
\* keeps the entries that are Wait or Execute.
C40_PopsExactlyTheFinished ==
    ev.kind = "pop_finished" =>
        /\ ev.popped = SelectSeq(ev.before, C40_Finished)
        /\ lb = SelectSeq(ev.before, C40_Unfinished)

\* the same when the Finished entries are the oldest entries of the buffer
C40_PopsTheFinishedPrefix ==
    (/\ ev.kind = "pop_finished"
     /\ \A j, k \in 1..Len(ev.before) :
           (j < k /\ C40_Finished(ev.before[k])) => C40_Finished(ev.before[j])) =>
        /\ ev.popped = SelectSeq(ev.before, C40_Finished)
        /\ lb = SelectSeq(ev.before, C40_Unfinished)

\* in the pipeline: the loads write_result broadcasts were Finished
C40_BroadcastLoadsAreFinished ==
    [][phase = "write_result" =>
        \A k \in 1..Len(pop_finished(lb)[1]) : C40_Finished(pop_finished(lb)[1][k])]_vars
====
